---------------------------- MODULE Spec2Model ----------------------------
(***************************************************************************)
(* A model of the `gear validate` command (package cmd, validate source):  *)
(* the tree walk with its exclusion filter, the grouping of parsed files   *)
(* into packages, the six rule checkers with the external type resolver    *)
(* and its process-wide cache, and the report phase with its exit status.  *)
(*                                                                         *)
(* Strings are TLA+ strings; the Go string functions the code calls are    *)
(* defined below on them, character by character.                          *)
(***************************************************************************)
EXTENDS Integers, Sequences, FiniteSets, TLC

(***************************************************************************)
(* Bounds of the model.                                                    *)
(***************************************************************************)
\* The largest number of source files a tree holds.
MaxFiles == 2

\* A run is followed until the resolver has read some file MaxReads times
\* for one import path.
MaxReads == 2

(***************************************************************************)
(* Go's strings and path/filepath functions.                               *)
(***************************************************************************)
Char(s, i) == SubSeq(s, i, i)

\* F applied to the value of e, e being evaluated once.
Bind(e, F(_)) == CHOOSE out \in {F(v) : v \in {e}} : TRUE

\* strings.HasPrefix
HasPrefix(s, t) == Len(t) <= Len(s) /\ SubSeq(s, 1, Len(t)) = t

\* strings.HasSuffix
HasSuffix(s, t) == Len(t) <= Len(s) /\ SubSeq(s, Len(s) - Len(t) + 1, Len(s)) = t

\* strings.Contains
Contains(s, t) == \E i \in 0..(Len(s) - Len(t)) : SubSeq(s, i + 1, i + Len(t)) = t

\* strings.TrimPrefix
TrimPrefix(s, t) == IF HasPrefix(s, t) THEN SubSeq(s, Len(t) + 1, Len(s)) ELSE s

\* The white space strings.TrimSpace removes (of the characters the model uses).
Spaces == {" ", "\t", "\n"}

RECURSIVE TrimLeft(_, _)
\* strings.TrimLeft(s, cutset), the cutset given as a set of characters
TrimLeft(s, cut) ==
  IF s # "" /\ Char(s, 1) \in cut THEN TrimLeft(Tail(s), cut) ELSE s

RECURSIVE TrimRight(_, _)
\* strings.TrimRight(s, cutset)
TrimRight(s, cut) ==
  IF s # "" /\ Char(s, Len(s)) \in cut THEN TrimRight(SubSeq(s, 1, Len(s) - 1), cut)
  ELSE s

\* strings.TrimSpace
TrimSpace(s) == TrimRight(TrimLeft(s, Spaces), Spaces)

\* strings.Trim(s, cutset) for a cutset of one character
Trim(s, c) == TrimRight(TrimLeft(s, {c}), {c})

RECURSIVE LastIndexFrom(_, _, _)
\* The greatest i <= from with s[i] = c, 0 when there is none.
LastIndexFrom(s, c, from) ==
  IF from = 0 THEN 0
  ELSE IF Char(s, from) = c THEN from
  ELSE LastIndexFrom(s, c, from - 1)

\* The index of the last "/" of s, 0 when there is none (strings.LastIndex + 1).
LastSlash(s) == LastIndexFrom(s, "/", Len(s))

\* filepath.Base, for the cleaned relative paths filepath.Walk hands out
\* (no trailing separator).
Base(path) == IF path = "" THEN "." ELSE SubSeq(path, LastSlash(path) + 1, Len(path))

\* The last element of strings.Split(s, "/").
LastPart(s) == SubSeq(s, LastSlash(s) + 1, Len(s))

\* filepath.Match for patterns made of literal characters, "*" and "?":
\* "*" matches any sequence of non-separator characters, "?" one of them.
RECURSIVE Match(_, _)
Match(pattern, name) ==
  IF pattern = "" THEN name = ""
  ELSE LET c == Char(pattern, 1)
           rest == Tail(pattern)
       IN  IF c = "*"
             THEN \E k \in 0..Len(name) :
                     /\ ~Contains(SubSeq(name, 1, k), "/")
                     /\ Match(rest, SubSeq(name, k + 1, Len(name)))
           ELSE IF c = "?"
             THEN name # "" /\ Char(name, 1) # "/" /\ Match(rest, Tail(name))
           ELSE name # "" /\ Char(name, 1) = c /\ Match(rest, Tail(name))

\* ast.IsExported: the name begins with an upper-case letter.
UpperCase == {"A", "B", "C", "D", "E", "F", "G", "H", "I", "J", "K", "L", "M",
              "N", "O", "P", "Q", "R", "S", "T", "U", "V", "W", "X", "Y", "Z"}

IsExported(name) == name # "" /\ Char(name, 1) \in UpperCase


(***************************************************************************)
(* The declaration model of a parsed file (go/ast).                        *)
(*   type expression: star says it is an *ast.StarExpr; x is the kind of   *)
(*   the expression (under the star, when there is one): "ident" for an    *)
(*   *ast.Ident, "sel" for an *ast.SelectorExpr sel.name, "other" for      *)
(*   anything else; line and col are its position.                         *)
(***************************************************************************)
Id(name, line, col) ==
  [star |-> FALSE, x |-> "ident", sel |-> "", name |-> name, line |-> line, col |-> col]

Ptr(name, line, col) ==
  [star |-> TRUE, x |-> "ident", sel |-> "", name |-> name, line |-> line, col |-> col]

Sel(pkg, name, line, col) ==
  [star |-> FALSE, x |-> "sel", sel |-> pkg, name |-> name, line |-> line, col |-> col]

PtrSel(pkg, name, line, col) ==
  [star |-> TRUE, x |-> "sel", sel |-> pkg, name |-> name, line |-> line, col |-> col]

\* A type expression that is neither a name nor a pointer to one (a map, a
\* slice).
Other(line, col) ==
  [star |-> FALSE, x |-> "other", sel |-> "", name |-> "", line |-> line, col |-> col]

\* *ast.Field: the names it declares (none for an anonymous one) and its type.
Field(names, type) == [names |-> names, type |-> type]

\* *ast.TypeSpec inside a top-level type declaration; kind is "interface"
\* (*ast.InterfaceType), "struct" (*ast.StructType) or "other".
TypeDecl(name, kind, line, col, fields) ==
  [k |-> "type", name |-> name, kind |-> kind, line |-> line, col |-> col,
   fields |-> fields]

\* *ast.FuncDecl: recv is Recv.List (empty for a function).
FuncDecl(name, recv, params, results, line, col) ==
  [k |-> "func", name |-> name, recv |-> recv, params |-> params,
   results |-> results, line |-> line, col |-> col]

\* *ast.ImportSpec: name is the alias ("" when there is none), value the
\* quoted path literal.
Import(name, value) == [name |-> name, value |-> value]

\* What os.ReadFile and parser.ParseFile make of a file: parses says whether
\* ParseFile succeeds.
GoFile(path, parses, pkg, imports, decls) ==
  [path |-> path, parses |-> parses, pkg |-> pkg, imports |-> imports, decls |-> decls]

\* The module root isExternalInterface strips from an import path.
ModuleRoot == "github.com/nex-prospect/nex-core-service/"

\* The module name getModuleName reads from the go.mod of such a project.
ModuleName == SubSeq(ModuleRoot, 1, Len(ModuleRoot) - 1)

\* fmt.Sprintf given more arguments than the format has verbs appends
\* "%!(EXTRA type=value, ...)" to what it returns.
SprintfExtra(verbs, args) == args > verbs

\* Two declarations of the file scope (types, functions) carry one name:
\* parser.ParseFile reports "redeclared in this block" and returns an error.
Redeclares(decls) ==
  \E i, j \in 1..Len(decls) :
     /\ i < j
     /\ decls[i].name = decls[j].name
     /\ decls[i].k = "type" \/ decls[i].recv = <<>>
     /\ decls[j].k = "type" \/ decls[j].recv = <<>>

\* parser.ParseFile accepts what a generator wrote: the text has no trailing
\* "%!(EXTRA ...)" and declares no name twice.
ParsesGenerated(verbs, args, decls) == ~SprintfExtra(verbs, args) /\ ~Redeclares(decls)

LowerLetters == "abcdefghijklmnopqrstuvwxyz"

UpperLetters == "ABCDEFGHIJKLMNOPQRSTUVWXYZ"

\* strings.ToUpper of one character.
ToUpper(c) ==
  IF \E i \in 1..Len(LowerLetters) : Char(LowerLetters, i) = c
    THEN Char(UpperLetters, CHOOSE i \in 1..Len(LowerLetters) : Char(LowerLetters, i) = c)
    ELSE c

capitalize(s) == IF Len(s) = 0 THEN s ELSE ToUpper(Char(s, 1)) \o SubSeq(s, 2, Len(s))

(***************************************************************************)
(* The scaffolding generator: what `gear init` and `gear add-domain` write *)
(* and what parser.ParseFile makes of it.  Names are put together as       *)
(* fmt.Sprintf does, each verb taking the next argument of the call; lines *)
(* and columns are those of a domain name of four letters.  The methods of *)
(* an interface and the bodies of functions hold no pointer to a bare name *)
(* and are left out.                                                       *)
(***************************************************************************)
\* cmd/main.go: one verb, one argument.
generateMainFile(moduleName) ==
  LET decls ==
        << FuncDecl("main",
                     <<>>,
                     <<>>,
                     <<>>, 9, 1) >>
  IN  GoFile("cmd/main.go",
             ParsesGenerated(1, 1, decls), "main",
             << Import("", "\"log\""),
             Import("", "\"" \o moduleName \o "/internal/config\"") >>,
             decls)

\* internal/config/config.go: one verb, one argument.
generateConfigPackage ==
  LET decls ==
        << TypeDecl("Config", "struct", 9, 6,
                     << Field(<<"databaseURL">>, Id("string", 11, 14)),
                     Field(<<"AppName">>, Id("string", 14, 14)),
                     Field(<<"Environment">>, Id("string", 15, 14)),
                     Field(<<"Port">>, Id("string", 16, 14)) >>),
           FuncDecl("NewConfig",
                     <<>>,
                     <<>>,
                     << Field(<<>>, Ptr("Config", 20, 18)) >>, 20, 1),
           FuncDecl("GetDatabaseURL",
                     << Field(<<"c">>, Ptr("Config", 30, 9)) >>,
                     <<>>,
                     << Field(<<>>, Id("string", 30, 35)) >>, 30, 1),
           FuncDecl("getOrDefault",
                     <<>>,
                     << Field(<<"key", "defaultValue">>, Id("string", 35, 37)) >>,
                     << Field(<<>>, Id("string", 35, 45)) >>, 35, 1),
           FuncDecl("getRequired",
                     <<>>,
                     << Field(<<"key">>, Id("string", 43, 22)) >>,
                     << Field(<<>>, Id("string", 43, 30)) >>, 43, 1) >>
  IN  GoFile("internal/config/config.go",
             ParsesGenerated(1, 1, decls), "config",
             << Import("", "\"log\""),
             Import("", "\"os\"") >>,
             decls)

\* internal/errors/errors.go: a literal, not formatted.
generateErrorsPackage ==
  LET decls ==
        << TypeDecl("Error", "struct", 15, 6,
                     << Field(<<"Code">>, Id("string", 16, 12)),
                     Field(<<"Message">>, Id("string", 17, 12)),
                     Field(<<"Variables">>, Other(18, 12)),
                     Field(<<"Err">>, Id("error", 19, 12)) >>),
           FuncDecl("NewError",
                     <<>>,
                     << Field(<<"code">>, Id("string", 23, 20)) >>,
                     << Field(<<>>, Ptr("Error", 23, 28)) >>, 23, 1),
           FuncDecl("WithVariables",
                     << Field(<<"e">>, Ptr("Error", 31, 9)) >>,
                     << Field(<<"vars">>, Other(31, 36)) >>,
                     << Field(<<>>, Ptr("Error", 31, 55)) >>, 31, 1),
           FuncDecl("WithError",
                     << Field(<<"e">>, Ptr("Error", 39, 9)) >>,
                     << Field(<<"err">>, Id("error", 39, 31)) >>,
                     << Field(<<>>, Ptr("Error", 39, 38)) >>, 39, 1),
           FuncDecl("Error",
                     << Field(<<"e">>, Ptr("Error", 45, 9)) >>,
                     <<>>,
                     << Field(<<>>, Id("string", 45, 25)) >>, 45, 1) >>
  IN  GoFile("internal/errors/errors.go",
             ParsesGenerated(0, 0, decls), "errors",
             << Import("", "\"fmt\"") >>,
             decls)

\* pkg/<domain>/model/<domain>.go: 11 verbs, 11 arguments.
generateModel(domainName, moduleName) ==
  LET structName == capitalize(domainName)
      decls ==
        << TypeDecl(structName, "struct", 10, 6,
                     << Field(<<"ID">>, Sel("uuid", "UUID", 11, 12)),
                     Field(<<"Name">>, Id("string", 12, 12)),
                     Field(<<"CreatedAt">>, Sel("time", "Time", 13, 12)),
                     Field(<<"UpdatedAt">>, Sel("time", "Time", 14, 12)) >>),
           TypeDecl(structName \o "Response", "struct", 18, 6,
                     << Field(<<"ID">>, Sel("uuid", "UUID", 19, 12)),
                     Field(<<"Name">>, Id("string", 20, 12)),
                     Field(<<"CreatedAt">>, Sel("time", "Time", 21, 12)),
                     Field(<<"UpdatedAt">>, Sel("time", "Time", 22, 12)) >>),
           FuncDecl("ToResponse",
                     << Field(<<"u">>, Ptr(structName, 26, 9)) >>,
                     <<>>,
                     << Field(<<>>, Ptr(structName \o "Response", 26, 29)) >>, 26, 1) >>
  IN  GoFile("pkg/" \o domainName \o "/model/" \o domainName \o ".go",
             ParsesGenerated(11, 11, decls), "model",
             << Import("", "\"time\""),
             Import("", "\"github.com/google/uuid\"") >>,
             decls)

\* pkg/<domain>/repository/<domain>_repository.go: 42 verbs, 45 arguments.
generateRepository(domainName, moduleName) ==
  LET structName == capitalize(domainName)
      decls ==
        << TypeDecl(structName \o "Repository", "interface", 13, 6,
                     <<>>),
           TypeDecl(domainName \o "Repository", "struct", 21, 6,
                     << Field(<<"db">>, PtrSel("gorm", "DB", 22, 5)) >>),
           FuncDecl("New" \o domainName \o "Repository",
                     <<>>,
                     << Field(<<"db">>, PtrSel("gorm", "DB", 26, 27)) >>,
                     << Field(<<>>, Id(structName \o "Repository", 26, 37)) >>, 26, 1),
           FuncDecl("Create",
                     << Field(<<"r">>, Ptr(domainName \o "Repository", 32, 9)) >>,
                     << Field(<<"ctx">>, Sel("context", "Context", 32, 37)),
                     Field(<<structName>>, Sel("model", domainName, 32, 59)) >>,
                     << Field(<<>>, PtrSel("model", structName, 32, 72)), Field(<<>>, Id("error", 32, 85)) >>, 32, 1),
           FuncDecl("GetByID",
                     << Field(<<"r">>, Ptr(structName \o "Repository", 39, 9)) >>,
                     << Field(<<"ctx">>, Sel("context", "Context", 39, 38)),
                     Field(<<"id">>, Sel("uuid", "UUID", 39, 58)) >>,
                     << Field(<<>>, PtrSel("model", structName, 39, 70)), Field(<<>>, Id("error", 39, 83)) >>, 39, 1),
           FuncDecl("Update",
                     << Field(<<"r">>, Ptr(domainName \o "Repository", 48, 9)) >>,
                     << Field(<<"ctx">>, Sel("context", "Context", 48, 37)),
                     Field(<<structName>>, PtrSel("model", domainName, 48, 59)) >>,
                     << Field(<<>>, Id("error", 48, 72)) >>, 48, 1),
           FuncDecl("Delete",
                     << Field(<<"r">>, Ptr(domainName \o "Repository", 52, 9)) >>,
                     << Field(<<"ctx">>, Sel("context", "Context", 52, 37)),
                     Field(<<"id">>, Sel("uuid", "UUID", 52, 57)) >>,
                     << Field(<<>>, Id("error", 52, 68)) >>, 52, 1),
           FuncDecl("List",
                     << Field(<<"r">>, Ptr(structName \o "Repository", 56, 9)) >>,
                     << Field(<<"ctx">>, Sel("context", "Context", 56, 35)) >>,
                     << Field(<<>>, Other(56, 53)), Field(<<>>, Id("error", 56, 67)) >>, 56, 1) >>
  IN  GoFile("pkg/" \o domainName \o "/repository/" \o domainName \o "_repository.go",
             ParsesGenerated(42, 45, decls), "repository",
             << Import("", "\"context\""),
             Import("", "\"github.com/google/uuid\""),
             Import("", "\"gorm.io/gorm\""),
             Import("", "\"" \o moduleName \o "/pkg/" \o domainName \o "/model\"") >>,
             decls)

\* pkg/<domain>/service/<domain>_service.go: 56 verbs, 56 arguments.
generateService(domainName, moduleName) ==
  LET structName == capitalize(domainName)
      decls ==
        << TypeDecl(structName \o "Service", "interface", 14, 6,
                     <<>>),
           TypeDecl(structName \o "Service", "struct", 22, 6,
                     << Field(<<"repo">>, Sel("repository", structName \o "Repository", 23, 7)) >>),
           FuncDecl("New" \o structName \o "Service",
                     <<>>,
                     << Field(<<"repo">>, Sel("repository", structName \o "Repository", 27, 26)) >>,
                     << Field(<<>>, Id(domainName \o "Service", 27, 53)) >>, 27, 1),
           FuncDecl("Get" \o structName,
                     << Field(<<"s">>, Ptr(domainName \o "Service", 33, 9)) >>,
                     << Field(<<"ctx">>, Sel("context", "Context", 33, 35)),
                     Field(<<"id">>, Sel("uuid", "UUID", 33, 55)) >>,
                     << Field(<<>>, PtrSel("model", structName, 33, 67)), Field(<<>>, Id("error", 33, 80)) >>, 33, 1),
           FuncDecl("Create" \o domainName,
                     << Field(<<"s">>, Ptr(domainName \o "Service", 41, 9)) >>,
                     << Field(<<"ctx">>, Sel("context", "Context", 41, 38)),
                     Field(<<structName>>, Sel("model", structName, 41, 60)) >>,
                     << Field(<<>>, PtrSel("model", domainName, 41, 73)), Field(<<>>, Id("error", 41, 86)) >>, 41, 1),
           FuncDecl("Update" \o structName,
                     << Field(<<"s">>, Ptr(structName \o "Service", 49, 9)) >>,
                     << Field(<<"ctx">>, Sel("context", "Context", 49, 38)),
                     Field(<<structName>>, PtrSel("model", domainName, 49, 60)) >>,
                     << Field(<<>>, PtrSel("model", structName, 49, 74)), Field(<<>>, Id("error", 49, 87)) >>, 49, 1),
           FuncDecl("Delete" \o structName,
                     << Field(<<"s">>, Ptr(structName \o "Service", 56, 9)) >>,
                     << Field(<<"ctx">>, Sel("context", "Context", 56, 38)),
                     Field(<<"id">>, Sel("uuid", "UUID", 56, 58)) >>,
                     << Field(<<>>, Id("error", 56, 69)) >>, 56, 1),
           FuncDecl("List" \o structName \o "s",
                     << Field(<<"s">>, Ptr(structName \o "Service", 63, 9)) >>,
                     << Field(<<"ctx">>, Sel("context", "Context", 63, 37)) >>,
                     << Field(<<>>, Other(63, 55)), Field(<<>>, Id("error", 63, 69)) >>, 63, 1) >>
  IN  GoFile("pkg/" \o domainName \o "/service/" \o domainName \o "_service.go",
             ParsesGenerated(56, 56, decls), "service",
             << Import("", "\"context\""),
             Import("", "\"github.com/google/uuid\""),
             Import("", "\"" \o moduleName \o "/internal/errors\""),
             Import("", "\"" \o domainName \o "/pkg/" \o moduleName \o "/model\""),
             Import("", "\"" \o domainName \o "/pkg/" \o structName \o "/repository\"") >>,
             decls)

\* pkg/<domain>/handler/<domain>_handler.go: 89 verbs, 94 arguments.
generateHandler(domainName, moduleName) ==
  LET structName == capitalize(domainName)
      decls ==
        << TypeDecl(structName \o "Handler", "interface", 15, 6,
                     <<>>),
           TypeDecl(structName \o "Handler", "struct", 24, 6,
                     << Field(<<domainName \o "Service">>, Sel("service", structName \o "Service", 25, 14)) >>),
           FuncDecl("New" \o structName \o "Handler",
                     <<>>,
                     << Field(<<domainName \o "Service">>, Sel("service", structName \o "Service", 29, 33)) >>,
                     << Field(<<>>, Id(structName \o "Handler", 29, 54)) >>, 29, 1),
           FuncDecl("RegisterRoutes",
                     << Field(<<"h">>, Ptr(domainName \o "Handler", 36, 9)) >>,
                     << Field(<<"router">>, Sel("gin", "IRouter", 36, 45)) >>,
                     <<>>, 36, 1),
           FuncDecl("Get" \o domainName,
                     << Field(<<"h">>, Ptr(domainName \o "Handler", 48, 9)) >>,
                     << Field(<<"c">>, PtrSel("gin", "Context", 48, 33)) >>,
                     <<>>, 48, 1),
           FuncDecl("Create" \o domainName,
                     << Field(<<"h">>, Ptr(structName \o "Handler", 66, 9)) >>,
                     << Field(<<"c">>, PtrSel("gin", "Context", 66, 36)) >>,
                     <<>>, 66, 1),
           FuncDecl("Update" \o structName,
                     << Field(<<"h">>, Ptr(domainName \o "Handler", 84, 9)) >>,
                     << Field(<<"c">>, PtrSel("gin", "Context", 84, 36)) >>,
                     <<>>, 84, 1),
           FuncDecl("Delete" \o structName,
                     << Field(<<"h">>, Ptr(domainName \o "Handler", 111, 9)) >>,
                     << Field(<<"c">>, PtrSel("gin", "Context", 111, 36)) >>,
                     <<>>, 111, 1),
           FuncDecl("List" \o domainName \o "s",
                     << Field(<<"h">>, Ptr(structName \o "Handler", 129, 9)) >>,
                     << Field(<<"c">>, PtrSel("gin", "Context", 129, 35)) >>,
                     <<>>, 129, 1) >>
  IN  GoFile("pkg/" \o domainName \o "/handler/" \o domainName \o "_handler.go",
             ParsesGenerated(89, 94, decls), "handler",
             << Import("", "\"net/http\""),
             Import("", "\"github.com/gin-gonic/gin\""),
             Import("", "\"github.com/google/uuid\""),
             Import("", "\"" \o moduleName \o "/internal/errors\""),
             Import("", "\"" \o domainName \o "/pkg/" \o moduleName \o "/model\""),
             Import("", "\"" \o domainName \o "/pkg/" \o structName \o "/service\"") >>,
             decls)

\* The domain names add-domain is called with.
Domains == {"item", "user"}

\* The Go files of a project made by `gear init` and `gear add-domain d`.
Scaffold(d) ==
  << generateMainFile(ModuleName), generateConfigPackage, generateErrorsPackage,
     generateHandler(d, ModuleName), generateModel(d, ModuleName),
     generateRepository(d, ModuleName), generateService(d, ModuleName) >>

ScaffoldTree(d) == {Scaffold(d)[i].path : i \in 1..Len(Scaffold(d))}

(***************************************************************************)
(* The files a tree is drawn from, in the order filepath.Walk visits them  *)
(* (lexical, directory by directory).                                      *)
(***************************************************************************)
\* a.go
\*   1 package main
\*   3 type store interface{}
File_a ==
  GoFile("a.go", TRUE, "main", <<>>,
         << TypeDecl("store", "interface", 3, 6, <<>>) >>)

\* ap/a_test.go
\*   1 package p
\*   3 type repo interface{}
File_ap_test ==
  GoFile("ap/a_test.go", TRUE, "p", <<>>,
         << TypeDecl("repo", "interface", 3, 6, <<>>) >>)

\* d.go/x.go (a directory whose name ends in ".go")
\*   1 package d
\*   3 type x interface{}
File_dgo_x ==
  GoFile("d.go/x.go", TRUE, "d", <<>>,
         << TypeDecl("x", "interface", 3, 6, <<>>) >>)

\* internal/config/config.go, as `gear init` writes it
\*   9 type Config struct { ... }
\*  20 func NewConfig() *Config
\*  30 func (c *Config) GetDatabaseURL() string
File_config == generateConfigPackage

\* internal/errors/codes.go
\*   1 package errors
\*   3 type Coder interface {
\*   4     Code() string
\*   5 }
\*   7 type wrapped struct {
\*   8     inner *Coder
\*   9 }
File_codes ==
  GoFile("internal/errors/codes.go", TRUE, "errors", <<>>,
         << TypeDecl("Coder", "interface", 3, 6, <<>>),
            TypeDecl("wrapped", "struct", 7, 6,
                     << Field(<<"inner">>, Ptr("Coder", 8, 11)) >>) >>)

\* internal/errors/app.go
\*   1 package errors
\*   3 import "github.com/nex-prospect/nex-core-service/internal/config"
\*   5 type AppError struct {
\*   6     cfg *config.Config
\*   7 }
\*   9 func (e *AppError) Error() string
\*  11 func NewAppError() *AppError
File_app ==
  GoFile("internal/errors/app.go", TRUE, "errors",
         << Import("", "\"github.com/nex-prospect/nex-core-service/internal/config\"") >>,
         << TypeDecl("AppError", "struct", 5, 6,
                     << Field(<<"cfg">>, PtrSel("config", "Config", 6, 6)) >>),
            FuncDecl("Error", << Field(<<"e">>, Ptr("AppError", 9, 9)) >>, <<>>,
                     << Field(<<>>, Id("string", 9, 27)) >>, 9, 1),
            FuncDecl("NewAppError", <<>>, <<>>,
                     << Field(<<>>, Ptr("AppError", 11, 20)) >>, 11, 1) >>)

\* model/m.go (a category directory directly under the root)
\*   1 package model
\*   3 type User struct{}
\*   5 func (u *User) Validate() error
\*   7 func NewUser() *User
File_model_root ==
  GoFile("model/m.go", TRUE, "model", <<>>,
         << TypeDecl("User", "struct", 3, 6, <<>>),
            FuncDecl("Validate", << Field(<<"u">>, Ptr("User", 5, 9)) >>, <<>>,
                     << Field(<<>>, Id("error", 5, 27)) >>, 5, 1),
            FuncDecl("NewUser", <<>>, <<>>,
                     << Field(<<>>, Ptr("User", 7, 16)) >>, 7, 1) >>)

\* p/a.go
\*   1 package p
\*   3 type store interface{}
File_p_a ==
  GoFile("p/a.go", TRUE, "p", <<>>,
         << TypeDecl("store", "interface", 3, 6, <<>>) >>)

\* p/bad.go: a file parser.ParseFile rejects
File_p_bad == GoFile("p/bad.go", FALSE, "", <<>>, <<>>)

\* pkg/foo/handler/h.go
\*   1 package handler
\*   3 import "github.com/nex-prospect/nex-core-service/pkg/foo/service"
\*   5 type fooHandler struct {
\*   6     svc *service.Repo
\*   7 }
\*   9 func Handle(s *service.Repo) *service.Repo
\*  11 type FooHandler interface {
\*  12     Serve()
\*  13 }
\*  15 func (h *fooHandler) Serve()
File_handler ==
  GoFile("pkg/foo/handler/h.go", TRUE, "handler",
         << Import("", "\"github.com/nex-prospect/nex-core-service/pkg/foo/service\"") >>,
         << TypeDecl("fooHandler", "struct", 5, 6,
                     << Field(<<"svc">>, PtrSel("service", "Repo", 6, 6)) >>),
            FuncDecl("Handle", <<>>,
                     << Field(<<"s">>, PtrSel("service", "Repo", 9, 15)) >>,
                     << Field(<<>>, PtrSel("service", "Repo", 9, 30)) >>, 9, 1),
            TypeDecl("FooHandler", "interface", 11, 6, <<>>),
            FuncDecl("Serve", << Field(<<"h">>, Ptr("fooHandler", 15, 9)) >>,
                     <<>>, <<>>, 15, 1) >>)

\* pkg/foo/model/foo.go
\*   1 package model
\*   3 type Foo struct {
\*   4     ID string
\*   5 }
\*   7 func (f *Foo) Validate() error
\*   9 func NewFoo() *Foo
File_model ==
  GoFile("pkg/foo/model/foo.go", TRUE, "model", <<>>,
         << TypeDecl("Foo", "struct", 3, 6,
                     << Field(<<"ID">>, Id("string", 4, 5)) >>),
            FuncDecl("Validate", << Field(<<"f">>, Ptr("Foo", 7, 9)) >>, <<>>,
                     << Field(<<>>, Id("error", 7, 26)) >>, 7, 1),
            FuncDecl("NewFoo", <<>>, <<>>,
                     << Field(<<>>, Ptr("Foo", 9, 15)) >>, 9, 1) >>)

\* pkg/foo/service/ctor.go
\*   1 package service
\*   3 type foo struct{}
\*   5 func NewFoo() *foo
\*   7 func NewPair() (foo, *foo)
\*   9 func NewName() *string
\*  11 func use(r *Repo)
File_ctor ==
  GoFile("pkg/foo/service/ctor.go", TRUE, "service", <<>>,
         << TypeDecl("foo", "struct", 3, 6, <<>>),
            FuncDecl("NewFoo", <<>>, <<>>,
                     << Field(<<>>, Ptr("foo", 5, 15)) >>, 5, 1),
            FuncDecl("NewPair", <<>>, <<>>,
                     << Field(<<>>, Id("foo", 7, 17)),
                        Field(<<>>, Ptr("foo", 7, 22)) >>, 7, 1),
            FuncDecl("NewName", <<>>, <<>>,
                     << Field(<<>>, Ptr("string", 9, 16)) >>, 9, 1),
            FuncDecl("use", <<>>,
                     << Field(<<"r">>, Ptr("Repo", 11, 12)) >>, <<>>, 11, 1) >>)

\* pkg/foo/service/foo_service.go
\*   1 package service
\*   3 type Repo interface {
\*   4     Get() string
\*   5 }
\*   7 type FooService struct {
\*   8     repo *Repo
\*   9     name string
\*  10 }
\*  12 func (s *FooService) Run(r Repo) Repo
File_service ==
  GoFile("pkg/foo/service/foo_service.go", TRUE, "service", <<>>,
         << TypeDecl("Repo", "interface", 3, 6, <<>>),
            TypeDecl("FooService", "struct", 7, 6,
                     << Field(<<"repo">>, Ptr("Repo", 8, 10)),
                        Field(<<"name">>, Id("string", 9, 10)) >>),
            FuncDecl("Run", << Field(<<"s">>, Ptr("FooService", 12, 9)) >>,
                     << Field(<<"r">>, Id("Repo", 12, 28)) >>,
                     << Field(<<>>, Id("Repo", 12, 34)) >>, 12, 1) >>)

\* pkg/foo/service/types.go
\*   1 package service
\*   3 type FooAPI interface{}
\*   5 type fooService struct{}
\*   7 func (s fooService) Run()
\*   9 type Plain struct{}
\*  11 type FooRequest struct{}
\*  13 func (r *FooRequest) Validate() error
\*  15 type CreateFoo struct{}
\*  17 func (c CreateFoo) Apply()
\*  19 type AppConfig struct{}
\*  21 func (c *AppConfig) Load()
\*  23 type ID string
File_types ==
  GoFile("pkg/foo/service/types.go", TRUE, "service", <<>>,
         << TypeDecl("FooAPI", "interface", 3, 6, <<>>),
            TypeDecl("fooService", "struct", 5, 6, <<>>),
            FuncDecl("Run", << Field(<<"s">>, Id("fooService", 7, 9)) >>,
                     <<>>, <<>>, 7, 1),
            TypeDecl("Plain", "struct", 9, 6, <<>>),
            TypeDecl("FooRequest", "struct", 11, 6, <<>>),
            FuncDecl("Validate", << Field(<<"r">>, Ptr("FooRequest", 13, 9)) >>, <<>>,
                     << Field(<<>>, Id("error", 13, 33)) >>, 13, 1),
            TypeDecl("CreateFoo", "struct", 15, 6, <<>>),
            FuncDecl("Apply", << Field(<<"c">>, Id("CreateFoo", 17, 9)) >>,
                     <<>>, <<>>, 17, 1),
            TypeDecl("AppConfig", "struct", 19, 6, <<>>),
            FuncDecl("Load", << Field(<<"c">>, Ptr("AppConfig", 21, 9)) >>,
                     <<>>, <<>>, 21, 1),
            TypeDecl("ID", "other", 23, 6, <<>>) >>)

\* vendor/v.go
\*   1 package v
\*   3 type x interface{}
File_vendor ==
  GoFile("vendor/v.go", TRUE, "v", <<>>,
         << TypeDecl("x", "interface", 3, 6, <<>>) >>)

Universe ==
  << File_a, File_ap_test, File_dgo_x, File_config, File_app, File_codes,
     File_model_root,
     File_p_a, File_p_bad, File_handler, File_model, File_ctor, File_service,
     File_types, File_vendor >>

Paths == {Universe[i].path : i \in 1..Len(Universe)}

\* Every file a tree can hold, in the order filepath.Walk visits them.
Sources ==
  << File_a, File_ap_test, generateMainFile(ModuleName), File_dgo_x, File_config,
     File_app, File_codes, generateErrorsPackage, File_model_root,
     File_p_a, File_p_bad, File_handler, File_model, File_ctor, File_service,
     File_types,
     generateHandler("item", ModuleName), generateModel("item", ModuleName),
     generateRepository("item", ModuleName), generateService("item", ModuleName),
     generateHandler("user", ModuleName), generateModel("user", ModuleName),
     generateRepository("user", ModuleName), generateService("user", ModuleName),
     File_vendor >>

\* The file system: what is in each file parser.ParseFile can be given, in
\* the order filepath.Walk meets the files.  No operation of the program
\* writes to it.
VARIABLE disk

\* The file at a path.
FileAt(path) == disk[CHOOSE i \in 1..Len(disk) : disk[i].path = path]

(***************************************************************************)
(* The file system the command runs in.  An entry of the tree exists when  *)
(* it is a file of the tree or a directory above one.                      *)
(***************************************************************************)
\* os.Stat(path) finds something: a file of the tree or a directory of it.
\* The path "" is the root directory itself.
PathExists(fs, path) ==
  \/ path = ""
  \/ \E f \in fs : f = path \/ HasPrefix(f, path \o "/")

\* The directories of the tree (the root apart).
DirsOf(fs) ==
  UNION {{SubSeq(f, 1, j - 1) : j \in {i \in 1..Len(f) : Char(f, i) = "/"}} : f \in fs}

IsDirIn(fs, path) == path = "." \/ path \in DirsOf(fs)

\* The directory a file or directory lies in ("" for the root).
DirOf(path) == SubSeq(path, 1, LastSlash(path) - 1)

RECURSIVE WalkFrom(_, _, _)
\* The entries filepath.Walk(".") visits after the root, in its order: each
\* directory right before what it holds.
WalkFrom(fs, i, seen) ==
  IF i > Len(disk) THEN <<>>
  ELSE LET f == disk[i].path
           cuts == {j \in 1..Len(f) : Char(f, j) = "/"}
           dirs == {SubSeq(f, 1, j - 1) : j \in cuts} \ seen
           RECURSIVE Asc(_)
           Asc(ds) == IF ds = {} THEN <<>>
                      ELSE LET d == CHOOSE e \in ds : \A e2 \in ds : Len(e) <= Len(e2)
                           IN  <<d>> \o Asc(ds \ {d})
       IN  IF f \in fs THEN Asc(dirs) \o <<f>> \o WalkFrom(fs, i + 1, seen \cup dirs)
           ELSE WalkFrom(fs, i + 1, seen)

\* Every path the walk callback may be called with.
WalkList(fs) == <<".">> \o WalkFrom(fs, 1, {})

(***************************************************************************)
(* Diagnostics (ValidationError).                                          *)
(***************************************************************************)
Diag(rule, file, line, col, msg, sev) ==
  [Rule |-> rule, File |-> file, Line |-> line, Column |-> col,
   Message |-> msg, Severity |-> sev]

\* The checkers thread one record through their loops: errs is the slice of
\* Diagnostics built so far, cache the externalPackageCache, reads the count
\* of the resolver's reads.
Emit(st, d) == [st EXCEPT !.errs = Append(@, d)]

(***************************************************************************)
(* R01: validateInterfaceContracts and its helpers.                        *)
(***************************************************************************)
dataStructSuffixes ==
  << "Request", "Response", "Model", "DTO", "Data", "Entity",
     "Config", "Settings", "Options", "Params", "Result", "Info",
     "Status", "State", "Event", "Message", "Payload", "Body",
     "Error", "Exception", "Notification", "Alert", "Report" >>

dataStructPrefixes == << "Create", "Update", "Delete", "Get", "List", "Search" >>

isDataStruct(name) ==
  \/ \E i \in 1..Len(dataStructSuffixes) : HasSuffix(name, dataStructSuffixes[i])
  \/ \E i \in 1..Len(dataStructPrefixes) : HasPrefix(name, dataStructPrefixes[i])

\* A variant that sees value receivers only.
structHasMethods_ValueOnly(structName, file) ==
  \E i \in 1..Len(file.decls) :
     /\ file.decls[i].k = "func"
     /\ \E j \in 1..Len(file.decls[i].recv) :
           LET t == file.decls[i].recv[j].type
           IN  ~t.star /\ t.x = "ident" /\ t.name = structName

structHasMethods(structName, file) ==
  \E i \in 1..Len(file.decls) :
     /\ file.decls[i].k = "func"
     /\ \E j \in 1..Len(file.decls[i].recv) :
           LET t == file.decls[i].recv[j].type
           IN  \/ ~t.star /\ t.x = "ident" /\ t.name = structName
               \/ t.star /\ t.x = "ident" /\ t.name = structName

shouldBeUnexported(structName, filePath, file) ==
  IF ~structHasMethods(structName, file) THEN FALSE
  ELSE IF isDataStruct(structName) THEN FALSE
  ELSE IF \/ Contains(filePath, "/model/")
          \/ Contains(filePath, "/proto/")
          \/ Contains(filePath, "/dto/")
          \/ Contains(filePath, "/client/")
          \/ Contains(filePath, "/provider/") THEN FALSE
  ELSE IF Contains(filePath, "/config/") \/ HasSuffix(structName, "Config") THEN FALSE
  ELSE IF Contains(filePath, "/errors/") THEN FALSE
  ELSE IF \/ Contains(filePath, "/service/")
          \/ Contains(filePath, "/handler/")
          \/ Contains(filePath, "/repository/") THEN TRUE
  ELSE ~isDataStruct(structName)

\* The type declarations of one kind, in declaration order (the first pass).
TypesOfKind(file, kind) ==
  SelectSeq(file.decls, LAMBDA d : d.k = "type" /\ d.kind = kind)

StructDiag(filePath, d) ==
  Diag("R01-interface-contracts", filePath, d.line, d.col,
       "Struct '" \o d.name \o "' is exported - GEAR prefers unexported structs with exported interfaces for service/business logic",
       "warning")

\* A variant that reports the unexported interface as a warning.
InterfaceDiag_Warning(filePath, d) ==
  Diag("R01-interface-contracts", filePath, d.line, d.col,
       "Interface '" \o d.name \o "' is unexported - GEAR requires exported interfaces",
       "warning")

InterfaceDiag(filePath, d) ==
  Diag("R01-interface-contracts", filePath, d.line, d.col,
       "Interface '" \o d.name \o "' is unexported - GEAR requires exported interfaces",
       "error")

\* A variant whose first pass collects every struct, exported or not.
ContractsOfFile_AllStructs(st, filePath) ==
  LET file == FileAt(filePath)
  IN  Bind(SelectSeq(TypesOfKind(file, "struct"),
                     LAMBDA d : shouldBeUnexported(d.name, filePath, file)),
           LAMBDA structs :
      Bind(SelectSeq(TypesOfKind(file, "interface"), LAMBDA d : ~IsExported(d.name)),
           LAMBDA interfaces :
        [st EXCEPT !.errs =
           @ \o [i \in 1..Len(structs) |-> StructDiag(filePath, structs[i])]
             \o [i \in 1..Len(interfaces) |-> InterfaceDiag(filePath, interfaces[i])]]))

\* One iteration of the loop over pkg.Files.
ContractsOfFile(st, filePath) ==
  LET file == FileAt(filePath)
  IN  Bind(SelectSeq(TypesOfKind(file, "struct"),
                     LAMBDA d : IsExported(d.name)
                                /\ shouldBeUnexported(d.name, filePath, file)),
           LAMBDA structs :
      Bind(SelectSeq(TypesOfKind(file, "interface"), LAMBDA d : ~IsExported(d.name)),
           LAMBDA interfaces :
        [st EXCEPT !.errs =
           @ \o [i \in 1..Len(structs) |-> StructDiag(filePath, structs[i])]
             \o [i \in 1..Len(interfaces) |-> InterfaceDiag(filePath, interfaces[i])]]))

(***************************************************************************)
(* R03: validateConstructorPatterns.                                       *)
(***************************************************************************)
ConstructorRuleName == "R02-constructor-patterns"

IsFlaggedConstructor(filePath, d) ==
  /\ d.k = "func"
  /\ HasPrefix(d.name, "New")
  /\ ~(\/ Contains(filePath, "/errors/")
       \/ Contains(filePath, "/utils/")
       \/ Contains(filePath, "/util/")
       \/ Contains(filePath, "/config/")
       \/ Contains(filePath, "/model/")
       \/ Contains(filePath, "/dto/")
       \/ Contains(filePath, "/proto/"))
  /\ Len(d.results) > 0
  /\ d.results[1].type.star
  /\ d.results[1].type.x = "ident"

ConstructorDiag(filePath, d) ==
  Diag(ConstructorRuleName, filePath, d.line, d.col,
       "Constructor '" \o d.name \o "' returns pointer to struct - GEAR constructors should return interfaces",
       "warning")

ConstructorsOfFile(st, filePath) ==
  Bind(SelectSeq(FileAt(filePath).decls, LAMBDA d : IsFlaggedConstructor(filePath, d)),
       LAMBDA flagged :
         [st EXCEPT !.errs = @ \o [i \in 1..Len(flagged) |->
                                     ConstructorDiag(filePath, flagged[i])]])

(***************************************************************************)
(* R04, R05, R06: validateDomainBoundaries, validateCentralizedConfig,     *)
(* validateSystematicErrors.  They read the file system, not the package.  *)
(***************************************************************************)
validateDomainBoundaries(st, fs) == st

ConfigRuleName == "R04-centralized-config"

validateCentralizedConfig(st, fs) ==
  IF ~PathExists(fs, "internal/config")
    THEN Emit(st, Diag(ConfigRuleName, "internal/config", 0, 0,
                       "Missing internal/config package - GEAR requires centralized configuration",
                       "error"))
    ELSE st

ErrorsRuleName == "R05-systematic-errors"

validateSystematicErrors(st, fs) ==
  IF ~PathExists(fs, "internal/errors")
    THEN Emit(st, Diag(ErrorsRuleName, "internal/errors", 0, 0,
                       "Missing internal/errors package - GEAR requires systematic error handling",
                       "error"))
    ELSE st

(***************************************************************************)
(* The external type resolver: isExternalInterface, checkTypeInPackage     *)
(* and the process-wide externalPackageCache.                              *)
(***************************************************************************)
\* filepath.Glob(filepath.Join(localPath, "*.go")): the entries right inside
\* the directory whose name matches, files and directories alike, sorted.
GlobGo(fs, dir) ==
  SelectSeq(WalkList(fs),
            LAMBDA e : e # "." /\ DirOf(e) = dir /\ Match("*.go", Base(e)))

\* The files of pkgFiles the loop keeps: not a test file, readable (not a
\* directory) and parsed without error.
ParsedOf(fs, pkgFiles) ==
  SelectSeq(pkgFiles,
            LAMBDA f : /\ ~HasSuffix(f, "_test.go")
                       /\ ~IsDirIn(fs, f)
                       /\ FileAt(f).parses)

\* The *ast.Package the resolver builds: files[i] is stored under the key
\* pkgFiles[i].
ExternalPackage(pkgFiles, files) ==
  [Name |-> FileAt(files[1]).pkg,
   Files |-> [key \in {pkgFiles[i] : i \in 1..Len(files)} |->
                files[CHOOSE i \in 1..Len(files) : pkgFiles[i] = key]]]

\* The first type declaration named typeName decides.  The loop ranges over
\* a map; no directory of Universe declares a type name twice, so the order
\* of the range does not change the answer.
checkTypeInPackage(pkg, typeName) ==
  \E key \in DOMAIN pkg.Files :
     LET decls == FileAt(pkg.Files[key]).decls
         named == {i \in 1..Len(decls) : decls[i].k = "type" /\ decls[i].name = typeName}
     IN  /\ named # {}
         /\ decls[CHOOSE i \in named : \A j \in named : i <= j].kind = "interface"

\* The files of pkgFiles the loop reads and hands to the parser: not a test
\* file and readable (not a directory).
ReadOf(fs, pkgFiles) ==
  SelectSeq(pkgFiles, LAMBDA f : ~HasSuffix(f, "_test.go") /\ ~IsDirIn(fs, f))

\* The read counts after the loop went over the files of packagePath.
CountReads(counts, packagePath, read) ==
  LET new == {<< packagePath, read[i] >> : i \in 1..Len(read)}
  IN  [k \in DOMAIN counts \cup new |->
         (IF k \in DOMAIN counts THEN counts[k] ELSE 0) + (IF k \in new THEN 1 ELSE 0)]

\* A variant that takes a type it cannot look up for an interface.
isExternalInterface_MissTrue(st, fs, packagePath, typeName) ==
  IF packagePath \in DOMAIN st.cache
    THEN [res |-> checkTypeInPackage(st.cache[packagePath], typeName), st |-> st]
  ELSE LET pkgPath == TrimPrefix(packagePath, ModuleRoot)
       IN  IF ~PathExists(fs, pkgPath) THEN [res |-> TRUE, st |-> st]
           ELSE
           Bind(GlobGo(fs, pkgPath), LAMBDA pkgFiles :
             Bind(ParsedOf(fs, pkgFiles), LAMBDA files :
               Bind([st EXCEPT !.reads = CountReads(@, packagePath, ReadOf(fs, pkgFiles))],
                    LAMBDA seen :
                 IF Len(files) > 0
                   THEN Bind(ExternalPackage(pkgFiles, files), LAMBDA pkg :
                          [res |-> checkTypeInPackage(pkg, typeName),
                           st |-> [seen EXCEPT !.cache = (packagePath :> pkg) @@ @]])
                   ELSE [res |-> TRUE, st |-> seen])))

\* Returns the answer and the record with the cache as the call leaves it.
isExternalInterface(st, fs, packagePath, typeName) ==
  IF packagePath \in DOMAIN st.cache
    THEN [res |-> checkTypeInPackage(st.cache[packagePath], typeName), st |-> st]
  ELSE LET pkgPath == TrimPrefix(packagePath, ModuleRoot)
       IN  IF ~PathExists(fs, pkgPath) THEN [res |-> FALSE, st |-> st]
           ELSE
           Bind(GlobGo(fs, pkgPath), LAMBDA pkgFiles :
             Bind(ParsedOf(fs, pkgFiles), LAMBDA files :
               Bind([st EXCEPT !.reads = CountReads(@, packagePath, ReadOf(fs, pkgFiles))],
                    LAMBDA seen :
                 IF Len(files) > 0
                   THEN Bind(ExternalPackage(pkgFiles, files), LAMBDA pkg :
                          [res |-> checkTypeInPackage(pkg, typeName),
                           st |-> [seen EXCEPT !.cache = (packagePath :> pkg) @@ @]])
                   ELSE [res |-> FALSE, st |-> seen])))

(***************************************************************************)
(* R02: validateInterfaceUsage.                                            *)
(***************************************************************************)
UsageRuleName == "R06-interface-usage"

\* The import map of a file: alias -> package path; a later import spec
\* replaces an earlier one under the same alias.
ImportAlias(imp) ==
  IF imp.name # "" THEN imp.name ELSE LastPart(Trim(imp.value, "\""))

ImportsOf(file, alias) ==
  {i \in 1..Len(file.imports) : ImportAlias(file.imports[i]) = alias}

ImportPath(file, alias) ==
  Trim(file.imports[CHOOSE i \in ImportsOf(file, alias) :
                      \A j \in ImportsOf(file, alias) : j <= i].value, "\"")

\* A variant that takes any type found in the file scope for an interface.
IsLocalInterface_AnyType(file, name) ==
  LET named == {i \in 1..Len(file.decls) :
                  /\ file.decls[i].name = name
                  /\ \/ file.decls[i].k = "type"
                     \/ file.decls[i].k = "func" /\ file.decls[i].recv = <<>>}
  IN  /\ named # {}
      /\ file.decls[CHOOSE i \in named : \A j \in named : i <= j].k = "type"

\* file.Scope.Lookup(name) finds a type declared as an interface: the file
\* scope holds the file's own top-level types and functions, the first
\* declaration of a name winning.
IsLocalInterface(file, name) ==
  LET named == {i \in 1..Len(file.decls) :
                  /\ file.decls[i].name = name
                  /\ \/ file.decls[i].k = "type"
                     \/ file.decls[i].k = "func" /\ file.decls[i].recv = <<>>}
  IN  /\ named # {}
      /\ LET d == file.decls[CHOOSE i \in named : \A j \in named : i <= j]
         IN  d.k = "type" /\ d.kind = "interface"

FieldMessage(what, name, typeName) ==
  IF what = "field"
    THEN "Struct field '" \o name \o "' has type '*" \o typeName
         \o "' - pointer to interface is an anti-pattern, use '" \o typeName \o "' instead"
    ELSE "Function parameter '" \o name \o "' has type '*" \o typeName
         \o "' - pointer to interface is an anti-pattern, use '" \o typeName \o "' instead"

\* The body of the loops over struct fields and over function parameters.
CheckPointerField(st, fs, filePath, field, what) ==
  LET file == FileAt(filePath)
      t == field.type
  IN  IF ~t.star \/ t.x = "other" THEN st
      ELSE LET name == IF Len(field.names) > 0 THEN field.names[1] ELSE t.name
           IN  Bind(IF t.x = "ident"
                      THEN [res |-> IsLocalInterface(file, t.name), st |-> st]
                    ELSE IF ImportsOf(file, t.sel) # {}
                      THEN isExternalInterface(st, fs, ImportPath(file, t.sel), t.name)
                    ELSE [res |-> FALSE, st |-> st],
                    LAMBDA r :
                      IF r.res
                        THEN Emit(r.st, Diag(UsageRuleName, filePath, t.line, t.col,
                                             FieldMessage(what, name, t.name), "error"))
                        ELSE r.st)

RECURSIVE CheckPointerFields(_, _, _, _, _)
CheckPointerFields(st, fs, filePath, fields, what) ==
  IF fields = <<>> THEN st
  ELSE Bind(CheckPointerField(st, fs, filePath, Head(fields), what),
            LAMBDA s : CheckPointerFields(s, fs, filePath, Tail(fields), what))

\* The body of the loop over function results.
CheckResult(st, filePath, result) ==
  LET t == result.type
  IN  IF t.star /\ t.x = "ident" /\ IsLocalInterface(FileAt(filePath), t.name)
        THEN Emit(st, Diag(UsageRuleName, filePath, t.line, t.col,
                           "Function returns '*" \o t.name
                           \o "' - pointer to interface, use '" \o t.name \o "' instead",
                           "error"))
        ELSE st

RECURSIVE CheckResults(_, _, _)
CheckResults(st, filePath, results) ==
  IF results = <<>> THEN st
  ELSE Bind(CheckResult(st, filePath, Head(results)),
            LAMBDA s : CheckResults(s, filePath, Tail(results)))

\* case *ast.StarExpr
CheckStarExpr(st, filePath, t) ==
  IF t.x = "ident" /\ IsLocalInterface(FileAt(filePath), t.name)
    THEN Emit(st, Diag(UsageRuleName, filePath, t.line, t.col,
                       "Pointer to interface '*" \o t.name
                       \o "' is an anti-pattern - interfaces are already reference types",
                       "error"))
    ELSE st

\* The *ast.StarExpr nodes among the types of a field list.
StarNodes(fields) ==
  LET stars == SelectSeq(fields, LAMBDA f : f.type.star)
  IN  [i \in 1..Len(stars) |-> [n |-> "StarExpr", t |-> stars[i].type]]

\* The nodes of a declaration the switch of the ast.Inspect callback has a
\* case for, in the order ast.Inspect reaches them (a node before its
\* children; of a function: receiver, parameters, results).
NodesOfDecl(d) ==
  IF d.k = "type"
    THEN IF d.kind = "struct"
           THEN << [n |-> "StructType", fields |-> d.fields] >> \o StarNodes(d.fields)
           ELSE <<>>
    ELSE << [n |-> "FuncDecl", d |-> d] >>
         \o StarNodes(d.recv) \o StarNodes(d.params) \o StarNodes(d.results)

RECURSIVE NodesOfDecls(_)
NodesOfDecls(decls) ==
  IF decls = <<>> THEN <<>> ELSE NodesOfDecl(Head(decls)) \o NodesOfDecls(Tail(decls))

\* The callback of ast.Inspect on one node.
InspectNode(st, fs, filePath, node) ==
  IF node.n = "StructType"
    THEN CheckPointerFields(st, fs, filePath, node.fields, "field")
  ELSE IF node.n = "StarExpr"
    THEN CheckStarExpr(st, filePath, node.t)
  ELSE Bind(CheckPointerFields(st, fs, filePath, node.d.params, "param"),
            LAMBDA s : CheckResults(s, filePath, node.d.results))

RECURSIVE InspectNodes(_, _, _, _)
InspectNodes(st, fs, filePath, nodes) ==
  IF nodes = <<>> THEN st
  ELSE Bind(InspectNode(st, fs, filePath, Head(nodes)),
            LAMBDA s : InspectNodes(s, fs, filePath, Tail(nodes)))

\* One iteration of the loop over pkg.Files.
UsageOfFile(st, fs, filePath) ==
  Bind(NodesOfDecls(FileAt(filePath).decls),
       LAMBDA nodes : InspectNodes(st, fs, filePath, nodes))

(***************************************************************************)
(* The inputs of a run: the .gearrc document and the --exclude flag.       *)
(***************************************************************************)
\* A .gearrc that yaml.Unmarshal accepts.
Doc(exclude, rules) == [kind |-> "doc", exclude |-> exclude, rules |-> rules]

NoRules == <<>>

\* Scenario D of the specification.
RulesScenarioD == [R02 |-> "warning"]

RulesAllInfo ==
  [R01 |-> "info", R02 |-> "info", R03 |-> "info",
   R04 |-> "info", R05 |-> "info", R06 |-> "info"]

Gearrcs ==
  { [kind |-> "absent"], [kind |-> "unreadable"], [kind |-> "malformed"],
    Doc(<<>>, RulesScenarioD),
    Doc(<<"p/*.go", ".go", "service">>, NoRules),
    Doc(<<"", " p ">>, RulesAllInfo) }

\* The values of the --exclude flag.
Clis == { <<>>, <<"a.go", "*_test.go">> }

(***************************************************************************)
(* The state: the environment of the command (tree, gomod, gearrc,         *)
(* cliExclude), the package-level variables of the process (excludeDirs,   *)
(* externalPackageCache) and the locals of validateProject.                *)
(***************************************************************************)
VARIABLES
  tree,                  \* the .go files under the working directory
  gomod,                 \* go.mod exists
  gearrc,                \* the .gearrc file
  cliExclude,            \* the --exclude flag of the command line
  excludeDirs,           \* var excludeDirs []string
  externalPackageCache,  \* var externalPackageCache map[string]*ast.Package
  pc,                    \* where validateProject is
  config,                \* the *GearConfig loadGearConfig returned
  walk,                  \* the entries filepath.Walk called the callback on
  packages,              \* the map parseProject builds
  ruleIdx,               \* the index of the rule the outer loop is at
  allErrors,             \* var allErrors []ValidationError
  output,                \* what the run has printed
  result,                \* how validateProject ended
  prev,                  \* the outcome of the run before this one, if any
  module,                \* the module path of go.mod, with a closing "/"
  reads,                 \* how often the resolver read and parsed a file for
                         \* an import path in this run (observation only)
  last                   \* the last lookup made of the resolver directly

vars == << disk, tree, gomod, gearrc, cliExclude, excludeDirs, externalPackageCache,
           pc, config, walk, packages, ruleIdx, allErrors, output, result, prev,
           module, reads, last >>

env == << disk, tree, gomod, gearrc, cliExclude, module >>

EmptyMap == <<>>

DefaultConfig == [Exclude |-> <<>>, Rules |-> EmptyMap]

\* A variant that takes a .gearrc it cannot use for an absent one.
loadGearConfig_IgnoreErrors(rc) ==
  IF rc.kind \in {"absent", "unreadable", "malformed"}
    THEN [err |-> "", config |-> DefaultConfig]
    ELSE [err |-> "", config |-> [Exclude |-> rc.exclude, Rules |-> rc.rules]]

\* loadGearConfig: the configuration, or the error it returns.
loadGearConfig(rc) ==
  IF rc.kind = "absent" THEN [err |-> "", config |-> DefaultConfig]
  ELSE IF rc.kind = "unreadable"
    THEN [err |-> "failed to read .gearrc", config |-> DefaultConfig]
  ELSE IF rc.kind = "malformed"
    THEN [err |-> "failed to parse .gearrc", config |-> DefaultConfig]
  ELSE [err |-> "", config |-> [Exclude |-> rc.exclude, Rules |-> rc.rules]]

\* The registered rules.
rules ==
  << [Name |-> "R01-interface-contracts",
      Description |-> "Interface contracts: exported interfaces + unexported structs"],
     [Name |-> "R02-interface-usage",
      Description |-> "Interface usage: no pointer-to-interface anti-patterns"],
     [Name |-> "R03-constructor-patterns",
      Description |-> "Constructor patterns: constructors return interfaces"],
     [Name |-> "R04-domain-boundaries",
      Description |-> "Domain boundaries: clean layer separation"],
     [Name |-> "R05-centralized-config",
      Description |-> "Centralized configuration: internal/config package exists"],
     [Name |-> "R06-systematic-errors",
      Description |-> "Systematic error handling: internal/errors package exists"] >>

\* validateProject gets as far as parseProject: go.mod is there and .gearrc
\* loads.  Otherwise it returns before anything reads the tree.
ReadsTree(gm, rc) == gm /\ loadGearConfig(rc).err = ""

\* The environments of a run: the trees of at most MaxFiles files of the
\* pool under every configuration, and the projects the scaffolding
\* generator makes, which have a go.mod and no .gearrc.  Those in which the
\* tree is never read are drawn with the trees of at most one file.
Init ==
  /\ disk = Sources
  /\ tree \in {t \in SUBSET Paths : Cardinality(t) <= MaxFiles}
              \cup {ScaffoldTree(d) : d \in Domains}
  /\ gomod \in BOOLEAN
  /\ gearrc \in Gearrcs
  /\ cliExclude \in Clis
  /\ ReadsTree(gomod, gearrc) \/ Cardinality(tree) <= 1
  /\ Cardinality(tree) <= MaxFiles
       \/ (gomod /\ gearrc.kind = "absent" /\ cliExclude = <<>>)
  /\ excludeDirs = cliExclude
  /\ externalPackageCache = EmptyMap
  /\ pc = "start"
  /\ config = DefaultConfig
  /\ walk = <<>>
  /\ packages = EmptyMap
  /\ ruleIdx = 1
  /\ allErrors = <<>>
  /\ output = <<>>
  /\ result = "running"
  /\ prev = <<>>
  /\ module = ModuleRoot
  /\ reads = EmptyMap
  /\ last = <<>>

(***************************************************************************)
(* validateProject, up to the call of parseProject.                        *)
(***************************************************************************)
\* A variant that adds the list of .gearrc to the list of the flag.
MergeExclude_Combined(excl, cfg) == excl \o cfg.Exclude

\* The merge of the flag with the configuration file: excludeDirs takes the
\* list of .gearrc only when it is empty itself.
MergeExclude(excl, cfg) ==
  IF Len(excl) = 0 /\ Len(cfg.Exclude) > 0 THEN cfg.Exclude ELSE excl

Begin ==
  /\ pc = "start"
  /\ \/ /\ ~gomod
        /\ pc' = "done"
        /\ result' = "error: not in a Go project directory (go.mod not found)"
        /\ output' = << <<"Validating GEAR compliance...">> >>
        /\ UNCHANGED << excludeDirs, config, walk >>
     \/ /\ gomod
        /\ loadGearConfig(gearrc).err # ""
        /\ pc' = "done"
        /\ result' = "error: failed to load .gearrc: " \o loadGearConfig(gearrc).err
        /\ output' = << <<"Validating GEAR compliance...">> >>
        /\ UNCHANGED << excludeDirs, config, walk >>
     \/ /\ gomod
        /\ loadGearConfig(gearrc).err = ""
        /\ config' = loadGearConfig(gearrc).config
        /\ excludeDirs' = MergeExclude(excludeDirs, config')
        /\ output' = IF Len(excludeDirs) = 0 /\ Len(config'.Exclude) > 0
                        THEN << <<"Validating GEAR compliance...">>,
                                <<"Loaded exclusions from .gearrc:", config'.Exclude>> >>
                        ELSE << <<"Validating GEAR compliance...">> >>
        /\ walk' = <<>>
        /\ pc' = "walk"
        /\ result' = result
  /\ packages' = EmptyMap
  /\ allErrors' = <<>>
  /\ ruleIdx' = 1
  /\ reads' = EmptyMap
  /\ UNCHANGED << env, externalPackageCache, prev, last >>

(***************************************************************************)
(* parseProject: filepath.Walk and its callback.                           *)
(***************************************************************************)
\* A variant without the exact file name match.
PatternExcludes_NoBase(excludePattern, path) ==
  LET pat == TrimSpace(excludePattern)
  IN  /\ pat # ""
      /\ \/ Contains(path, pat \o "/") \/ HasSuffix(path, "/" \o pat)
         \/ /\ Contains(pat, "*") \/ Contains(pat, "?")
            /\ Match(pat, Base(path)) \/ Match(pat, path)

\* One exclusion pattern makes the callback return nil for the path.
PatternExcludes(excludePattern, path) ==
  LET pat == TrimSpace(excludePattern)
  IN  /\ pat # ""
      /\ \/ Base(path) = pat
         \/ Contains(path, pat \o "/") \/ HasSuffix(path, "/" \o pat)
         \/ /\ Contains(pat, "*") \/ Contains(pat, "?")
            /\ Match(pat, Base(path)) \/ Match(pat, path)

\* The path is not a Go file or is under a directory excluded by default.
NotCandidate(path) ==
  \/ ~HasSuffix(path, ".go")
  \/ Contains(path, "vendor/")
  \/ Contains(path, ".git/")

IsExcluded(excl, path) ==
  \E i \in 1..Len(excl) : PatternExcludes(excl[i], path)

\* A directory the callback answers filepath.SkipDir for.
IsSkippedDir(excl, fs, path) ==
  /\ IsDirIn(fs, path)
  /\ \E i \in 1..Len(excl) :
        TrimSpace(excl[i]) # "" /\ HasSuffix(path, TrimSpace(excl[i]))

\* What the callback does with a path: "nil" (returns nil without reading
\* it), "skipdir", "readerr" (os.ReadFile fails: the path is a directory),
\* "parseerr" (parser.ParseFile fails) or "parsed".
Callback(excl, fs, path) ==
  IF NotCandidate(path) THEN "nil"
  ELSE IF IsExcluded(excl, path) THEN "nil"
  ELSE IF IsSkippedDir(excl, fs, path) THEN "skipdir"
  ELSE IF IsDirIn(fs, path) THEN "readerr"
  ELSE IF ~FileAt(path).parses THEN "parseerr"
  ELSE "parsed"

\* A variant that groups the files by their directory.
AddFile_ByDirectory(pkgs, path) ==
  LET pkgName == DirOf(path)
  IN  IF pkgName \in DOMAIN pkgs
        THEN [pkgs EXCEPT ![pkgName].Files = @ \cup {path}]
        ELSE (pkgName :> [Name |-> FileAt(path).pkg, Files |-> {path}]) @@ pkgs

\* packages[pkgName].Files[path] = file, the package created when it is new.
AddFile(pkgs, path) ==
  LET pkgName == FileAt(path).pkg
  IN  IF pkgName \in DOMAIN pkgs
        THEN [pkgs EXCEPT ![pkgName].Files = @ \cup {path}]
        ELSE (pkgName :> [Name |-> pkgName, Files |-> {path}]) @@ pkgs

\* What is left of the walk after the callback answered SkipDir for dir.
SkipUnder(rest, dir) == SelectSeq(rest, LAMBDA e : ~HasPrefix(e, dir \o "/"))

RECURSIVE WalkAll(_, _, _, _)
\* filepath.Walk over the entries rest: the callback on each in turn, until
\* it returns an error.  st.visited are the entries the callback was called
\* on, st.err the path whose callback returned an error ("" when none did).
WalkAll(excl, fs, rest, st) ==
  IF rest = <<>> THEN st
  ELSE Bind(Callback(excl, fs, Head(rest)),
            LAMBDA what :
              LET path == Head(rest)
                  seen == [st EXCEPT !.visited = Append(@, path)]
              IN  CASE what = "nil" ->
                         WalkAll(excl, fs, Tail(rest), seen)
                    [] what = "skipdir" ->
                         WalkAll(excl, fs, SkipUnder(Tail(rest), path), seen)
                    [] what \in {"readerr", "parseerr"} ->
                         [seen EXCEPT !.err = path]
                    [] what = "parsed" ->
                         WalkAll(excl, fs, Tail(rest),
                                 [seen EXCEPT !.pkgs = AddFile(@, path)]))

\* parseProject, and validateProject's return when it fails.
ParseProject ==
  /\ pc = "walk"
  /\ \E st \in {WalkAll(excludeDirs, tree, WalkList(tree),
                        [pkgs |-> EmptyMap, visited |-> <<>>, err |-> ""])} :
        /\ walk' = st.visited
        /\ \/ /\ st.err # ""
              /\ pc' = "done"
              /\ result' = "error: failed to parse project: " \o st.err
              /\ packages' = EmptyMap
           \/ /\ st.err = ""
              /\ pc' = "rules"
              /\ packages' = st.pkgs
              /\ UNCHANGED result
  /\ UNCHANGED << env, reads, last, excludeDirs, externalPackageCache, config, ruleIdx,
                  allErrors, output, prev >>

(***************************************************************************)
(* The rule loop: one rule over every package.  Both maps (packages and    *)
(* pkg.Files) are ranged over in an order the runtime picks.               *)
(***************************************************************************)
LoadedFiles(pkgs) == UNION {pkgs[n].Files : n \in DOMAIN pkgs}

\* The orders a range over a set may take.
Orders(S) ==
  {f \in [1..Cardinality(S) -> S] : \A i, j \in 1..Cardinality(S) : f[i] = f[j] => i = j}

RECURSIVE CheckFiles(_, _, _, _)
\* The loop over pkg.Files of the first three checkers, the files taken in
\* the order fileOrder.
CheckFiles(r, st, fs, fileOrder) ==
  IF fileOrder = <<>> THEN st
  ELSE LET f == Head(fileOrder)
       IN  Bind(IF r = 1 THEN ContractsOfFile(st, f)
                ELSE IF r = 2 THEN UsageOfFile(st, fs, f)
                ELSE ConstructorsOfFile(st, f),
                LAMBDA s : CheckFiles(r, s, fs, Tail(fileOrder)))

\* rules[r].Check(pkg, nil), its Diagnostics appended to those of st: what
\* it can leave, one outcome for each order the range over pkg.Files takes.
Check(r, st, fs, pkg) ==
  IF r \in {1, 2, 3} THEN {CheckFiles(r, st, fs, ord) : ord \in Orders(pkg.Files)}
  ELSE IF r = 4 THEN {validateDomainBoundaries(st, fs)}
  ELSE IF r = 5 THEN {validateCentralizedConfig(st, fs)}
  ELSE {validateSystematicErrors(st, fs)}

RECURSIVE CheckPackages(_, _, _, _, _)
\* The inner loop, for _, pkg := range pkgs, once it has ranged over k
\* packages: for every set S of k packages, what the loop can leave when S
\* are the packages it has visited, in whatever order.
CheckPackages(r, st, fs, pkgs, k) ==
  IF k = 0 THEN [S \in {{}} |-> {st}]
  ELSE Bind(CheckPackages(r, st, fs, pkgs, k - 1),
            LAMBDA before :
              [S \in {X \in SUBSET (DOMAIN pkgs) : Cardinality(X) = k} |->
                 UNION {UNION {Check(r, s, fs, pkgs[n]) : s \in before[S \ {n}]} :
                        n \in S}])

\* A variant in which the rules see the loaded files only.
RunRule_LoadedOnly ==
  /\ pc = "rules"
  /\ \E st \in CheckPackages(ruleIdx,
                             [errs |-> allErrors, cache |-> externalPackageCache,
                              reads |-> reads],
                             LoadedFiles(packages), packages,
                             Cardinality(DOMAIN packages))[DOMAIN packages] :
        /\ allErrors' = st.errs
        /\ externalPackageCache' = st.cache
        /\ reads' = st.reads
  /\ output' = Append(output, <<"Checking", rules[ruleIdx].Description>>)
  /\ IF ruleIdx = Len(rules)
       THEN pc' = "report" /\ ruleIdx' = ruleIdx
       ELSE pc' = pc /\ ruleIdx' = ruleIdx + 1
  /\ UNCHANGED << env, last, excludeDirs, config, walk, packages, result, prev >>

RunRule ==
  /\ pc = "rules"
  /\ \E st \in CheckPackages(ruleIdx,
                             [errs |-> allErrors, cache |-> externalPackageCache,
                              reads |-> reads],
                             tree, packages,
                             Cardinality(DOMAIN packages))[DOMAIN packages] :
        /\ allErrors' = st.errs
        /\ externalPackageCache' = st.cache
        /\ reads' = st.reads
  /\ output' = Append(output, <<"Checking", rules[ruleIdx].Description>>)
  /\ IF ruleIdx = Len(rules)
       THEN pc' = "report" /\ ruleIdx' = ruleIdx
       ELSE pc' = pc /\ ruleIdx' = ruleIdx + 1
  /\ UNCHANGED << env, last, excludeDirs, config, walk, packages, result, prev >>

(***************************************************************************)
(* The report: the Diagnostics in the order of allErrors, the summary and  *)
(* the exit status.                                                        *)
(***************************************************************************)
\* The line printed for a Diagnostic: its mark and the fields of the format
\* "[%s] %s:%d:%d - %s"; nothing for a severity outside the switch.
ReportLine(e) ==
  IF e.Severity = "error"
    THEN << <<"error", e.Rule, e.File, e.Line, e.Column, e.Message>> >>
  ELSE IF e.Severity = "warning"
    THEN << <<"warning", e.Rule, e.File, e.Line, e.Column, e.Message>> >>
  ELSE IF e.Severity = "info"
    THEN << <<"info", e.Rule, e.File, e.Line, e.Column, e.Message>> >>
  ELSE <<>>

RECURSIVE ReportLines(_)
ReportLines(errs) ==
  IF errs = <<>> THEN <<>> ELSE ReportLine(Head(errs)) \o ReportLines(Tail(errs))

CountSeverity(errs, sev) == Len(SelectSeq(errs, LAMBDA e : e.Severity = sev))

Report ==
  /\ pc = "report"
  /\ pc' = "done"
  /\ \/ /\ Len(allErrors) = 0
        /\ output' = Append(output, <<"All GEAR rules validated successfully!">>)
        /\ result' = "nil"
     \/ /\ Len(allErrors) > 0
        /\ output' = output
                     \o << <<"Found issues:", Len(allErrors)>> >>
                     \o ReportLines(allErrors)
                     \o << <<"Summary:", CountSeverity(allErrors, "error"),
                             CountSeverity(allErrors, "warning")>> >>
        /\ result' = IF CountSeverity(allErrors, "error") > 0 THEN "exit 1" ELSE "nil"
  /\ UNCHANGED << env, reads, last, excludeDirs, externalPackageCache, config, walk, packages,
                  ruleIdx, allErrors, prev >>

(***************************************************************************)
(* A second run over the same tree: validateProject called again in the    *)
(* same process (after it returned), or the command started again.         *)
(***************************************************************************)
Outcome ==
  [output |-> output, result |-> result, allErrors |-> allErrors,
   cache |-> externalPackageCache, sameProcess |-> FALSE]

\* validateProject is called again: the package-level variables keep their
\* values.
CallAgain ==
  /\ pc = "done"
  /\ prev = <<>>
  /\ result # "exit 1"
  /\ prev' = << [Outcome EXCEPT !.sameProcess = TRUE] >>
  /\ pc' = "start"
  /\ result' = "running"
  /\ output' = <<>>
  /\ UNCHANGED << env, reads, last, excludeDirs, externalPackageCache, config, walk, packages,
                  ruleIdx, allErrors >>

\* The command is started again: a new process, with the package-level
\* variables as the program initialises them.
StartAgain ==
  /\ pc = "done"
  /\ prev = <<>>
  /\ prev' = << Outcome >>
  /\ pc' = "start"
  /\ result' = "running"
  /\ output' = <<>>
  /\ excludeDirs' = cliExclude
  /\ externalPackageCache' = EmptyMap
  /\ config' = DefaultConfig
  /\ walk' = <<>>
  /\ packages' = EmptyMap
  /\ ruleIdx' = 1
  /\ allErrors' = <<>>
  /\ reads' = EmptyMap
  /\ UNCHANGED << env, last >>

Next == Begin \/ ParseProject \/ RunRule \/ Report \/ CallAgain \/ StartAgain

Spec == Init /\ [][Next]_vars

(***************************************************************************)
(* The resolver on its own.  A run has loaded its tree and is in the rule  *)
(* loop; validateInterfaceUsage asks isExternalInterface about the         *)
(* qualified pointer types of the files it inspects.  The lookups are      *)
(* drawn here directly, for import paths under the module of the project   *)
(* and under the module the resolver knows, so that they cover what files  *)
(* outside the pool can ask for.                                           *)
(***************************************************************************)
\* The module paths a go.mod can declare.
Modules == {ModuleRoot, "example.com/app/"}

\* The files the trees of these runs are drawn from.
ResolverPool ==
  {"ap/a_test.go", "internal/config/config.go", "p/a.go", "p/bad.go",
   "pkg/foo/service/foo_service.go"}

\* The directories the import paths of a lookup end with ("q" is in no tree).
LookupDirs == {DirOf(f) : f \in ResolverPool} \cup {"q"}

LookupTypes == {"Config", "Repo", "store"}

ResolverGearrcs == { [kind |-> "absent"], Doc(<<"p/*.go", ".go">>, NoRules) }

\* The state of a run right after parseProject returned without error.
InitResolver ==
  /\ disk = Sources
  /\ tree \in {t \in SUBSET ResolverPool : Cardinality(t) <= MaxFiles}
  /\ gomod = TRUE
  /\ gearrc \in ResolverGearrcs
  /\ cliExclude = <<>>
  /\ module \in Modules
  /\ config = loadGearConfig(gearrc).config
  /\ excludeDirs = config.Exclude
  /\ output = IF Len(config.Exclude) > 0
                THEN << <<"Validating GEAR compliance...">>,
                        <<"Loaded exclusions from .gearrc:", config.Exclude>> >>
                ELSE << <<"Validating GEAR compliance...">> >>
  /\ \E st \in {WalkAll(excludeDirs, tree, WalkList(tree),
                        [pkgs |-> EmptyMap, visited |-> <<>>, err |-> ""])} :
        /\ st.err = ""
        /\ walk = st.visited
        /\ packages = st.pkgs
  /\ pc = "rules"
  /\ ruleIdx = 1
  /\ allErrors = <<>>
  /\ result = "running"
  /\ prev = <<>>
  /\ externalPackageCache = EmptyMap
  /\ reads = EmptyMap
  /\ last = <<>>

\* One call isExternalInterface(packagePath, typeName).
Lookup ==
  /\ pc = "rules"
  /\ \A k \in DOMAIN reads : reads[k] < MaxReads
  /\ \E m \in Modules : \E d \in LookupDirs : \E typeName \in LookupTypes :
       \E r \in {isExternalInterface([errs |-> allErrors, cache |-> externalPackageCache,
                                      reads |-> reads],
                                     tree, m \o d, typeName)} :
          /\ externalPackageCache' = r.st.cache
          /\ reads' = r.st.reads
          /\ last' = << [packagePath |-> m \o d, typeName |-> typeName, res |-> r.res,
                         cached |-> (m \o d) \in DOMAIN externalPackageCache] >>
  /\ UNCHANGED << env, excludeDirs, pc, config, walk, packages, ruleIdx, allErrors,
                  output, result, prev >>

NextResolver == Lookup

SpecResolver == InitResolver /\ [][NextResolver]_vars

(***************************************************************************)
(* Vocabulary of the properties.                                           *)
(***************************************************************************)
\* The run went through the report phase.
Reported == pc = "done" /\ result \in {"nil", "exit 1"}

\* The rule loop is past rule r: allErrors holds what checker r emitted for
\* every loaded package.
RanRule(r) == (pc = "rules" /\ ruleIdx > r) \/ pc = "report" \/ Reported

\* The rule loop has run every rule over every loaded package: allErrors is
\* what the run found, and the report has not started.
RulesDone == pc = "report"

\* The directory segments of a path (its elements but the last).
RECURSIVE DirSegments(_)
DirSegments(path) ==
  IF LastSlash(path) = 0 THEN {}
  ELSE {Base(DirOf(path))} \cup DirSegments(DirOf(path))

\* The documented identifier ("R01" .. "R06") of the registered rule a
\* Diagnostic's rule name belongs to: the registered name with the same text
\* after the number.
RuleKey(ruleName) ==
  LET i == CHOOSE j \in 1..Len(rules) :
             SubSeq(rules[j].Name, 4, Len(rules[j].Name)) = SubSeq(ruleName, 4, Len(ruleName))
  IN  SubSeq(rules[i].Name, 1, 3)

\* The severity the configuration asks for: the override of the rule when
\* the rules mapping has one, the severity the checker coded otherwise.
EffectiveSeverity(d) ==
  IF RuleKey(d.Rule) \in DOMAIN config.Rules THEN config.Rules[RuleKey(d.Rule)]
  ELSE d.Severity

\* The lines of the report that show a Diagnostic.
DiagLines(out) == SelectSeq(out, LAMBDA l : Len(l) = 6)

\* The number of Diagnostics of allErrors that satisfy P.
Count(P(_)) == Cardinality({k \in 1..Len(allErrors) : P(allErrors[k])})

\* The byte order of the characters the paths and rule names are made of.
Alphabet == "-./0123456789ABCDEFGHIJKLMNOPQRSTUVWXYZ_abcdefghijklmnopqrstuvwxyz"

Rank(c) == CHOOSE i \in 1..Len(Alphabet) : Char(Alphabet, i) = c

RECURSIVE StrLess(_, _)
\* a < b as Go compares strings.
StrLess(a, b) ==
  IF b = "" THEN FALSE
  ELSE IF a = "" THEN TRUE
  ELSE IF Char(a, 1) # Char(b, 1) THEN Rank(Char(a, 1)) < Rank(Char(b, 1))
  ELSE StrLess(Tail(a), Tail(b))

\* Line l1 does not come after l2 by file path, line, column, rule.
LineLeq(l1, l2) ==
  IF l1[3] # l2[3] THEN StrLess(l1[3], l2[3])
  ELSE IF l1[4] # l2[4] THEN l1[4] < l2[4]
  ELSE IF l1[5] # l2[5] THEN l1[5] < l2[5]
  ELSE l1[2] = l2[2] \/ StrLess(l1[2], l2[2])

(***************************************************************************)
(* C1: for every exclusion pattern of the run (excludeDirs as parseProject *)
(* reads it) and every file of the tree, if the file's base name equals    *)
(* the pattern, or a directory segment of its path equals the pattern, or  *)
(* the pattern is a glob matching its base name or its relative path, then *)
(* after parseProject the file is in no Package and no Diagnostic has it   *)
(* as its File.                                                            *)
(***************************************************************************)
C1_Covered(pat, f) ==
  \/ Base(f) = pat
  \/ pat \in DirSegments(f)
  \/ /\ Contains(pat, "*") \/ Contains(pat, "?")
     /\ Match(pat, Base(f)) \/ Match(pat, f)

C1_ExcludedNeverLoaded ==
  RulesDone =>
    \A i \in 1..Len(excludeDirs) : \A f \in tree :
       C1_Covered(excludeDirs[i], f) =>
         /\ f \notin LoadedFiles(packages)
         /\ \A k \in 1..Len(allErrors) : allErrors[k].File # f

\* A run reaches its report with a parsable Go file outside vendor/ and .git/
\* left out because of a pattern, next to a file that was loaded.
C1_Witness ==
  /\ pc = "report"
  /\ LoadedFiles(packages) # {}
  /\ \E i \in 1..Len(excludeDirs) : \E f \in tree :
        C1_Covered(excludeDirs[i], f) /\ ~NotCandidate(f) /\ FileAt(f).parses

(***************************************************************************)
(* C2: every Diagnostic is reported with the severity the configuration's  *)
(* rules mapping gives its rule when it has an entry for it, and with the  *)
(* severity coded for it otherwise.                                        *)
(***************************************************************************)
C2_SeverityFollowsConfig ==
  (Reported /\ Len(allErrors) > 0) =>
    \A k \in 1..Len(allErrors) :
       /\ Len(DiagLines(output)) = Len(allErrors)
       /\ DiagLines(output)[k][1] = EffectiveSeverity(allErrors[k])

(***************************************************************************)
(* C3: a run that reaches the report exits with status 1 exactly when some *)
(* Diagnostic has effective severity "error" once the overrides of the     *)
(* configuration are applied (so, with rules.R02 = "warning" and only      *)
(* interface-usage errors, with status 0).                                 *)
(***************************************************************************)
C3_ExitIffEffectiveError ==
  Reported =>
    (result = "exit 1"
       <=> \E k \in 1..Len(allErrors) : EffectiveSeverity(allErrors[k]) = "error")

(***************************************************************************)
(* C4: the Diagnostics of the report are sorted by file path, then line,   *)
(* then column, then rule identifier.                                      *)
(***************************************************************************)
C4_ReportSorted ==
  Reported =>
    \A i, j \in 1..Len(DiagLines(output)) :
       i < j => LineLeq(DiagLines(output)[i], DiagLines(output)[j])

(***************************************************************************)
(* C5: two runs over the same tree with the same configuration report the  *)
(* same Diagnostics in the same order.                                     *)
(***************************************************************************)
C5_SameOutputTwice ==
  (Reported /\ prev # <<>> /\ prev[1].result \in {"nil", "exit 1"}) =>
    DiagLines(output) = DiagLines(prev[1].output)

(***************************************************************************)
(* C6: for every struct field whose type is a pointer to a named type that *)
(* the same file declares as an interface, the run holds exactly one error *)
(* Diagnostic at that field, and it carries the R02 identifier.            *)
(***************************************************************************)
DeclaresInterface(file, name) ==
  \E i \in 1..Len(file.decls) :
     file.decls[i].k = "type" /\ file.decls[i].kind = "interface"
     /\ file.decls[i].name = name

C6_OneUsageDiagnosticPerField ==
  RanRule(2) =>
    \A f \in LoadedFiles(packages) :
      \A i \in 1..Len(FileAt(f).decls) :
        LET d == FileAt(f).decls[i]
        IN  (d.k = "type" /\ d.kind = "struct") =>
              \A j \in 1..Len(d.fields) :
                LET t == d.fields[j].type
                IN  (t.star /\ t.x = "ident" /\ DeclaresInterface(FileAt(f), t.name)) =>
                      /\ Count(LAMBDA e : /\ e.File = f /\ e.Line = t.line
                                          /\ e.Column = t.col /\ e.Severity = "error") = 1
                      /\ Count(LAMBDA e : /\ e.File = f /\ e.Line = t.line
                                          /\ e.Column = t.col
                                          /\ e.Rule = rules[2].Name) = 1

(***************************************************************************)
(* C7: when internal/config (R05), respectively internal/errors (R06),     *)
(* does not exist, the run holds exactly one error Diagnostic of that rule *)
(* with no line and no column, however many Packages were loaded, and the  *)
(* exit status is 1.                                                       *)
(***************************************************************************)
C7_OneDiagnosticPerMissingDir ==
  Reported =>
    /\ ~PathExists(tree, "internal/config") =>
         /\ Count(LAMBDA e : RuleKey(e.Rule) = "R05") = 1
         /\ Count(LAMBDA e : /\ RuleKey(e.Rule) = "R05" /\ e.Severity = "error"
                             /\ e.Line = 0 /\ e.Column = 0) = 1
         /\ result = "exit 1"
    /\ ~PathExists(tree, "internal/errors") =>
         /\ Count(LAMBDA e : RuleKey(e.Rule) = "R06") = 1
         /\ Count(LAMBDA e : /\ RuleKey(e.Rule) = "R06" /\ e.Severity = "error"
                             /\ e.Line = 0 /\ e.Column = 0) = 1
         /\ result = "exit 1"

(***************************************************************************)
(* C8: for every function whose name begins with "New", in a file outside  *)
(* the excluded path categories, whose first result is a pointer to a      *)
(* struct the file declares, the run holds exactly one warning Diagnostic  *)
(* that carries the R03 (constructor patterns) identifier.                 *)
(***************************************************************************)
ConstructorCategories == {"errors", "utils", "util", "config", "model", "dto", "proto"}

DeclaresStruct(file, name) ==
  \E i \in 1..Len(file.decls) :
     file.decls[i].k = "type" /\ file.decls[i].kind = "struct"
     /\ file.decls[i].name = name

C8_Constructor(f, d) ==
  /\ d.k = "func"
  /\ HasPrefix(d.name, "New")
  /\ DirSegments(f) \cap ConstructorCategories = {}
  /\ Len(d.results) > 0
  /\ d.results[1].type.star
  /\ d.results[1].type.x = "ident"
  /\ DeclaresStruct(FileAt(f), d.results[1].type.name)

C8_OneConstructorWarning ==
  RanRule(3) =>
    \A f \in LoadedFiles(packages) :
      \A i \in 1..Len(FileAt(f).decls) :
        C8_Constructor(f, FileAt(f).decls[i]) =>
          Count(LAMBDA e : /\ e.File = f /\ e.Line = FileAt(f).decls[i].line
                           /\ e.Severity = "warning"
                           /\ e.Rule = rules[3].Name) = 1

(***************************************************************************)
(* C9: for every struct declaration of a loaded file that is exported, has *)
(* a method declared in the same file and matches no exemption (data       *)
(* suffix, verb prefix, data-carrying path category), the interface        *)
(* contracts checker emits exactly one R01 warning Diagnostic, at the line *)
(* of the declaration.                                                     *)
(***************************************************************************)
DataCategories == {"model", "proto", "dto", "client", "provider", "config", "errors"}

HasMethodInFile(file, name) ==
  \E i \in 1..Len(file.decls) :
     /\ file.decls[i].k = "func"
     /\ \E j \in 1..Len(file.decls[i].recv) :
          file.decls[i].recv[j].type.x = "ident" /\ file.decls[i].recv[j].type.name = name

C9_Struct(f, d) ==
  /\ d.k = "type"
  /\ d.kind = "struct"
  /\ IsExported(d.name)
  /\ HasMethodInFile(FileAt(f), d.name)
  /\ \A i \in 1..Len(dataStructSuffixes) : ~HasSuffix(d.name, dataStructSuffixes[i])
  /\ \A i \in 1..Len(dataStructPrefixes) : ~HasPrefix(d.name, dataStructPrefixes[i])
  /\ DirSegments(f) \cap DataCategories = {}

C9_OneContractWarning ==
  RulesDone =>
    \A f \in LoadedFiles(packages) :
      \A i \in 1..Len(FileAt(f).decls) :
        C9_Struct(f, FileAt(f).decls[i]) =>
          Count(LAMBDA e : /\ e.Rule = rules[1].Name /\ e.Severity = "warning"
                           /\ e.File = f
                           /\ e.Line = FileAt(f).decls[i].line) = 1

\* The checker has run over a loaded file that holds such a struct.
C9_Witness ==
  /\ RanRule(1)
  /\ \E f \in LoadedFiles(packages) : \E i \in 1..Len(FileAt(f).decls) :
        C9_Struct(f, FileAt(f).decls[i])

C11_StructsOf(f) ==
  {i \in 1..Len(FileAt(f).decls) :
     FileAt(f).decls[i].k = "type" /\ FileAt(f).decls[i].kind = "struct"}

C11_InterfacesOf(f) ==
  {i \in 1..Len(FileAt(f).decls) :
     FileAt(f).decls[i].k = "type" /\ FileAt(f).decls[i].kind = "interface"}

\* The package declares only unexported structs and exported interfaces, one
\* of the structs with methods, and at least one interface.
C11_ScenarioB(files) ==
  /\ \A f \in files :
        /\ \A i \in C11_StructsOf(f) : ~IsExported(FileAt(f).decls[i].name)
        /\ \A i \in C11_InterfacesOf(f) : IsExported(FileAt(f).decls[i].name)
  /\ \E f \in files : \E i \in C11_StructsOf(f) :
        HasMethodInFile(FileAt(f), FileAt(f).decls[i].name)
  /\ \E f \in files : C11_InterfacesOf(f) # {}

C11_NoContractDiagnostic ==
  RulesDone =>
    /\ \A f \in LoadedFiles(packages) : \A i \in C11_StructsOf(f) :
          LET d == FileAt(f).decls[i]
          IN  (~IsExported(d.name) \/ ~HasMethodInFile(FileAt(f), d.name)) =>
                Count(LAMBDA e : /\ e.Rule = rules[1].Name /\ e.File = f
                                 /\ e.Line = d.line /\ e.Column = d.col) = 0
    /\ \A n \in DOMAIN packages :
          C11_ScenarioB(packages[n].Files) =>
            Count(LAMBDA e : e.Rule = rules[1].Name /\ e.File \in packages[n].Files) = 0

\* The rules have run over such a package and over a file with an exported
\* struct that has no method.
C11_Witness ==
  /\ RulesDone
  /\ \E n \in DOMAIN packages : C11_ScenarioB(packages[n].Files)
  /\ \E f \in LoadedFiles(packages) : \E i \in C11_StructsOf(f) :
        /\ IsExported(FileAt(f).decls[i].name)
        /\ ~HasMethodInFile(FileAt(f), FileAt(f).decls[i].name)

(***************************************************************************)
(* C12: the interface usage checker emits no Diagnostic at a struct field, *)
(* function parameter or function result whose type is a plain named type  *)
(* (no pointer), interface or not, nor at one whose type is a pointer to a *)
(* named type that is not declared as an interface: a struct, or a name    *)
(* that no file of the place it is looked up in declares.                  *)
(***************************************************************************)
\* The types of the struct fields, parameters and results of a file.
C12_TypeExprs(f) ==
  UNION {LET d == FileAt(f).decls[i]
         IN  IF d.k = "type" THEN {d.fields[j].type : j \in 1..Len(d.fields)}
             ELSE {d.params[j].type : j \in 1..Len(d.params)}
                  \cup {d.results[j].type : j \in 1..Len(d.results)} :
         i \in 1..Len(FileAt(f).decls)}

\* The named type is declared as an interface: by the file itself for a bare
\* name, by a file of the tree in the directory an import of the qualifier
\* ends with for a qualified one.
C12_DeclaredInterface(f, t) ==
  IF t.x = "ident" THEN DeclaresInterface(FileAt(f), t.name)
  ELSE IF t.x = "sel"
    THEN \E i \in 1..Len(FileAt(f).imports) : \E g \in tree :
            /\ ImportAlias(FileAt(f).imports[i]) = t.sel
            /\ HasSuffix(Trim(FileAt(f).imports[i].value, "\""), DirOf(g))
            /\ DeclaresInterface(FileAt(g), t.name)
  ELSE FALSE

C12_NoUsageDiagnostic ==
  RulesDone =>
    \A f \in LoadedFiles(packages) : \A t \in C12_TypeExprs(f) :
       (~t.star \/ ~C12_DeclaredInterface(f, t)) =>
         Count(LAMBDA e : /\ RuleKey(e.Rule) = "R02" /\ e.File = f
                          /\ e.Line = t.line /\ e.Column = t.col) = 0

\* The rules have run over a plain interface type, over a pointer to a struct
\* and over a pointer to a qualified name whose directory is not in the tree.
C12_Witness ==
  /\ RulesDone
  /\ \E f \in LoadedFiles(packages) : \E t \in C12_TypeExprs(f) :
        ~t.star /\ C12_DeclaredInterface(f, t)
  /\ \E f \in LoadedFiles(packages) : \E t \in C12_TypeExprs(f) :
        t.star /\ t.x = "ident" /\ DeclaresStruct(FileAt(f), t.name)

\* The same over a pointer to a qualified name that nothing declares.
C12_WitnessUnresolved ==
  /\ RulesDone
  /\ \E f \in LoadedFiles(packages) : \E t \in C12_TypeExprs(f) :
        t.star /\ t.x = "sel" /\ ~C12_DeclaredInterface(f, t)

(***************************************************************************)
(* C13: when the walk meets a file it has to parse and the parse fails,    *)
(* the load does not abort: the run does not end with the parse error, the *)
(* files that parse are placed in Packages, the rules run, and the run     *)
(* holds exactly one Diagnostic for the file that failed.                  *)
(***************************************************************************)
\* The files of the tree the walk hands to the parser.
C13_Parsed(good) ==
  {f \in tree : /\ \E i \in 1..Len(walk) : walk[i] = f
                /\ Callback(excludeDirs, tree, f) = (IF good THEN "parsed" ELSE "parseerr")}

C13_LoadSurvivesParseFailure ==
  (pc \in {"rules", "report", "done"} /\ C13_Parsed(FALSE) # {}) =>
    /\ ~HasPrefix(result, "error: failed to parse project")
    /\ C13_Parsed(TRUE) \subseteq LoadedFiles(packages)
    /\ Reported =>
          \A f \in C13_Parsed(FALSE) : Count(LAMBDA e : e.File = f) = 1

(***************************************************************************)
(* C14: the identifiers of the six registered rules are pairwise distinct, *)
(* and every Diagnostic carries the identifier of the registered rule      *)
(* whose checker produced it: while the rule loop is at rule r, every      *)
(* Diagnostic found so far carries the name of a registered rule before r. *)
(***************************************************************************)
\* The rules whose checker has run.
C14_Ran == IF pc = "rules" THEN 1..(ruleIdx - 1) ELSE 1..Len(rules)

C14_DiagnosticsCarryRegisteredId ==
  (pc \in {"rules", "report"}) =>
    /\ \A i, j \in 1..Len(rules) : i # j => rules[i].Name # rules[j].Name
    /\ \A k \in 1..Len(allErrors) :
          \E r \in C14_Ran : allErrors[k].Rule = rules[r].Name

(***************************************************************************)
(* C15: within one run, for every import path whose directory exists, the  *)
(* resolver reads and parses each file of the directory at most once,      *)
(* however many lookups are made for the path and whatever type names they *)
(* ask for: every lookup after the first is answered from the cache, with  *)
(* no file read.                                                           *)
(***************************************************************************)
C15_ReadAtMostOnce ==
  \A k \in DOMAIN reads : reads[k] <= 1

(***************************************************************************)
(* C17: for every import path of a package inside the tree (the module     *)
(* path of the project followed by a directory of the tree) and every type *)
(* name, the lookup answers true exactly when a non-test file of that      *)
(* directory declares a type of that name as an interface.                 *)
(***************************************************************************)
C17_Declared(dir, typeName) ==
  \E f \in tree : /\ DirOf(f) = dir
                  /\ ~HasSuffix(f, "_test.go")
                  /\ FileAt(f).parses
                  /\ DeclaresInterface(FileAt(f), typeName)

C17_TrueIffDeclaredInterface ==
  \A i \in 1..Len(last) :
     (/\ HasPrefix(last[i].packagePath, module)
      /\ TrimPrefix(last[i].packagePath, module) \in DirsOf(tree)) =>
       (last[i].res <=> C17_Declared(TrimPrefix(last[i].packagePath, module),
                                     last[i].typeName))

(***************************************************************************)
(* C18: at the start of every run of validateProject the resolver cache is *)
(* empty: a second run in sequence sees no entry the first one created.    *)
(***************************************************************************)
C18_CacheEmptyAtStart ==
  pc = "start" => externalPackageCache = EmptyMap

(***************************************************************************)
(* C19: a tree made by the scaffolding generator (init, then add-domain    *)
(* for a domain name, no other file) validates with zero Diagnostics and   *)
(* exit status 0: the run ends by returning nil with nothing reported.     *)
(***************************************************************************)
C19_ScaffoldValidatesClean ==
  (pc = "done" /\ \E d \in Domains : tree = ScaffoldTree(d)) =>
    /\ result = "nil"
    /\ allErrors = <<>>

(***************************************************************************)
(* C16: when the directory an import path stands for does not exist in the *)
(* tree, or holds no file the resolver can read and parse, the lookup      *)
(* answers false and raises nothing: the pointer to the qualified name     *)
(* gets no Diagnostic, no error ends the rule phase, and the run gets to   *)
(* its report.                                                             *)
(***************************************************************************)
\* The qualifier of the pointer type is imported, and no non-test file that
\* parses lies in the directory of the import path.
C16_Unresolvable(f, t) ==
  /\ t.star
  /\ t.x = "sel"
  /\ ImportsOf(FileAt(f), t.sel) # {}
  /\ ~\E g \in tree :
         /\ DirOf(g) = TrimPrefix(ImportPath(FileAt(f), t.sel), module)
         /\ ~HasSuffix(g, "_test.go")
         /\ FileAt(g).parses

C16_ResolutionMissIsSilent ==
  /\ pc \in {"rules", "report"} => result = "running"
  /\ RulesDone =>
        \A f \in LoadedFiles(packages) : \A t \in C12_TypeExprs(f) :
           C16_Unresolvable(f, t) =>
             Count(LAMBDA e : e.File = f /\ e.Line = t.line /\ e.Column = t.col) = 0

\* The rules have run over a file with such a pointer and the report is next.
C16_Witness ==
  /\ RulesDone
  /\ \E f \in LoadedFiles(packages) : \E t \in C12_TypeExprs(f) :
        /\ C16_Unresolvable(f, t)
        /\ ~PathExists(tree, TrimPrefix(ImportPath(FileAt(f), t.sel), module))

(***************************************************************************)
(* C20: when .gearrc exists but cannot be read or is malformed, the run    *)
(* ends with the configuration error before the walk: no file is visited,  *)
(* no Package is loaded, no rule runs and no Diagnostic exists.  When      *)
(* .gearrc is absent that is no error: the run goes on with the default    *)
(* configuration, no exclusion but those of the command line and no        *)
(* override.                                                               *)
(***************************************************************************)
C20_ConfigErrorIsFatal ==
  (gomod /\ pc # "start") =>
    /\ gearrc.kind \in {"malformed", "unreadable"} =>
          /\ pc = "done"
          /\ HasPrefix(result, "error: failed to load .gearrc")
          /\ walk = <<>>
          /\ packages = EmptyMap
          /\ allErrors = <<>>
          /\ \A i \in 1..Len(output) : output[i][1] # "Checking"
    /\ gearrc.kind = "absent" =>
          /\ ~HasPrefix(result, "error: failed to load .gearrc")
          /\ config = DefaultConfig
          /\ excludeDirs = cliExclude
          /\ pc = "done" => result \in {"nil", "exit 1"}
                             \/ HasPrefix(result, "error: failed to parse project")

\* A run over a tree with a file has ended on a malformed .gearrc.
C20_Witness ==
  /\ pc = "done"
  /\ gomod
  /\ gearrc.kind = "malformed"
  /\ tree # {}

\* A run without .gearrc has loaded a file and reached its report.
C20_WitnessAbsent ==
  /\ Reported
  /\ gearrc.kind = "absent"
  /\ LoadedFiles(packages) # {}

(***************************************************************************)
(* C21: during the walk a directory whose final path segment equals an     *)
(* exclusion pattern exactly is pruned: the callback answers SkipDir for   *)
(* it, and no entry beneath it is visited.                                 *)
(***************************************************************************)
\* The directory the walk met has a pattern of the run as its last segment.
C21_NamedByPattern(d) ==
  /\ IsDirIn(tree, d)
  /\ \E i \in 1..Len(excludeDirs) :
        TrimSpace(excludeDirs[i]) # "" /\ Base(d) = TrimSpace(excludeDirs[i])

C21_ExactDirPruned ==
  pc \in {"rules", "report"} =>
    \A i \in 1..Len(walk) :
      C21_NamedByPattern(walk[i]) =>
        /\ Callback(excludeDirs, tree, walk[i]) = "skipdir"
        /\ \A j \in 1..Len(walk) : ~HasPrefix(walk[j], walk[i] \o "/")

(***************************************************************************)
(* C22: the containment rule excludes a path only when the pattern is a    *)
(* full segment of it.  A Go file outside vendor/ and .git/ whose path has *)
(* the pattern only as a part of a segment, and that no pattern covers by  *)
(* base name, by full segment or by glob, is loaded.                       *)
(***************************************************************************)
\* A pattern of the run covers the file by one of the three stated rules.
C22_Covered(f) ==
  \E i \in 1..Len(excludeDirs) :
     TrimSpace(excludeDirs[i]) # "" /\ C1_Covered(TrimSpace(excludeDirs[i]), f)

C22_PartOfSegmentStillLoaded ==
  pc \in {"rules", "report"} =>
    \A f \in tree :
      (~NotCandidate(f) /\ ~C22_Covered(f)) => f \in LoadedFiles(packages)

(***************************************************************************)
(* C23: R02 treats struct fields, function parameters and function results *)
(* alike.  At each of the three positions a pointer to a type qualified by *)
(* an imported alias, whose import path names a directory of the module    *)
(* where a file declares the type as an interface, has an error            *)
(* Diagnostic; in particular at a function result.                         *)
(***************************************************************************)
\* The type expression of file f is a pointer to an imported interface.
C23_PointerToImportedInterface(f, t) ==
  /\ t.star /\ t.x = "sel"
  /\ ImportsOf(FileAt(f), t.sel) # {}
  /\ HasPrefix(ImportPath(FileAt(f), t.sel), module)
  /\ C17_Declared(TrimPrefix(ImportPath(FileAt(f), t.sel), module), t.name)

C23_ResultsFlaggedLikeFields ==
  RulesDone =>
    \A f \in LoadedFiles(packages) : \A t \in C12_TypeExprs(f) :
       C23_PointerToImportedInterface(f, t) =>
         Count(LAMBDA e : /\ e.File = f /\ e.Line = t.line
                          /\ e.Column = t.col /\ e.Severity = "error") >= 1

(***************************************************************************)
(* C24: R02 resolves a bare type name against the declarations of the      *)
(* whole Package.  A pointer to an interface that a file of the same       *)
(* Package declares, the file of the pointer or another one, has an error  *)
(* Diagnostic.                                                             *)
(***************************************************************************)
\* A file of Package n declares the name as an interface.
C24_PackageDeclaresInterface(n, name) ==
  \E g \in packages[n].Files : DeclaresInterface(FileAt(g), name)

C24_ResolvedAcrossFiles ==
  RulesDone =>
    \A n \in DOMAIN packages : \A f \in packages[n].Files :
      \A t \in C12_TypeExprs(f) :
        (t.star /\ t.x = "ident" /\ C24_PackageDeclaresInterface(n, t.name)) =>
          Count(LAMBDA e : /\ e.File = f /\ e.Line = t.line
                           /\ e.Column = t.col /\ e.Severity = "error") >= 1

(***************************************************************************)
(* C25: R03 emits a warning only for a constructor whose first declared    *)
(* result is a pointer to a named type that is declared locally and is not *)
(* an interface.  A first result that points to a local interface or to a  *)
(* name without a local type declaration (a builtin), and a pointer at a   *)
(* later result only, give no warning.                                     *)
(***************************************************************************)
\* A file of Package n declares the name as a type that is no interface.
C25_LocalConcreteType(n, name) ==
  \E g \in packages[n].Files : \E i \in 1..Len(FileAt(g).decls) :
     /\ FileAt(g).decls[i].k = "type"
     /\ FileAt(g).decls[i].kind # "interface"
     /\ FileAt(g).decls[i].name = name

C25_WarningOnlyForLocalConcrete ==
  RanRule(3) =>
    \A n \in DOMAIN packages : \A f \in packages[n].Files :
      \A k \in 1..Len(allErrors) :
        (RuleKey(allErrors[k].Rule) = "R03" /\ allErrors[k].File = f) =>
          \E i \in 1..Len(FileAt(f).decls) :
            LET d == FileAt(f).decls[i]
            IN  /\ d.k = "func"
                /\ d.line = allErrors[k].Line /\ d.col = allErrors[k].Column
                /\ Len(d.results) > 0
                /\ d.results[1].type.star
                /\ d.results[1].type.x = "ident"
                /\ C25_LocalConcreteType(n, d.results[1].type.name)

(***************************************************************************)
(* C26: the path-category exemptions hold wherever the category directory  *)
(* sits, directly under the root included.  No struct of a file under a    *)
(* model, proto, dto, client, provider, config or errors directory has an  *)
(* R01 Diagnostic, and no function of a file under a utility, config,      *)
(* model, dto, proto or errors directory has an R03 Diagnostic.            *)
(***************************************************************************)
\* The run holds a Diagnostic of the rule at a declaration of kind k of f.
C26_Flagged(key, f, k) ==
  \E e \in 1..Len(allErrors) : \E i \in 1..Len(FileAt(f).decls) :
     /\ RuleKey(allErrors[e].Rule) = key
     /\ allErrors[e].File = f
     /\ FileAt(f).decls[i].k = k
     /\ (k = "type" => FileAt(f).decls[i].kind = "struct")
     /\ allErrors[e].Line = FileAt(f).decls[i].line
     /\ allErrors[e].Column = FileAt(f).decls[i].col

C26_CategoryExemptAnywhere ==
  RulesDone =>
    \A f \in LoadedFiles(packages) :
      /\ DirSegments(f) \cap DataCategories # {} => ~C26_Flagged("R01", f, "type")
      /\ DirSegments(f) \cap ConstructorCategories # {} => ~C26_Flagged("R03", f, "func")

(***************************************************************************)
(* C27: after parseProject every file the walk parsed (a Go file outside   *)
(* vendor/ and .git/ that no pattern excludes) is in exactly one Package,  *)
(* the one keyed by the package name the file declares; files of           *)
(* different directories that declare the same name are in the same        *)
(* Package, and the Name of each Package is its key.                       *)
(***************************************************************************)
\* The files the walk handed to the parser.
C27_Eligible ==
  {f \in tree : /\ \E i \in 1..Len(walk) : walk[i] = f
                /\ ~NotCandidate(f)
                /\ ~IsExcluded(excludeDirs, f)}

C27_GroupedByDeclaredName ==
  pc \in {"rules", "report"} =>
    /\ \A f \in C27_Eligible :
          /\ FileAt(f).pkg \in DOMAIN packages
          /\ \A n \in DOMAIN packages :
                f \in packages[n].Files <=> n = FileAt(f).pkg
    /\ \A f, g \in C27_Eligible :
          FileAt(f).pkg = FileAt(g).pkg =>
            \E n \in DOMAIN packages : {f, g} \subseteq packages[n].Files
    /\ \A n \in DOMAIN packages : packages[n].Name = n

\* parseProject returned a Package with files of two directories.
C27_Witness ==
  /\ pc = "rules"
  /\ \E n \in DOMAIN packages : \E f, g \in packages[n].Files :
        /\ DirOf(f) # DirOf(g)
        /\ {f, g} \subseteq C27_Eligible

(***************************************************************************)
(* C28: the exclusion list a run works with is the list of the command     *)
(* line whenever that list is not empty, and the list of .gearrc only when *)
(* the list of the command line is empty.  The two are never combined: on  *)
(* a run with a command-line exclusion a pattern of .gearrc keeps no file  *)
(* out of the load.                                                        *)
(***************************************************************************)
C28_CommandLineOverridesFile ==
  /\ (pc \in {"walk", "rules", "report"} \/ Reported) =>
        excludeDirs = IF Len(cliExclude) > 0 THEN cliExclude ELSE config.Exclude
  /\ (pc \in {"rules", "report"} /\ Len(cliExclude) > 0) =>
        \A f \in tree :
          (~NotCandidate(f) /\ ~IsExcluded(cliExclude, f)) =>
             f \in LoadedFiles(packages)

\* A run with both lists loaded a file that a pattern of .gearrc covers.
C28_Witness ==
  /\ pc = "rules"
  /\ Len(cliExclude) > 0
  /\ Len(config.Exclude) > 0
  /\ \E f \in LoadedFiles(packages) : IsExcluded(config.Exclude, f)

\* A run without a command-line list works with the list of .gearrc.
C28_WitnessFileList ==
  /\ pc = "rules"
  /\ cliExclude = <<>>
  /\ Len(config.Exclude) > 0
  /\ \E f \in tree : ~NotCandidate(f) /\ f \notin LoadedFiles(packages)

(***************************************************************************)
(* C29: the external resolver does not consult the exclusion list.  A      *)
(* struct field or parameter of a loaded file that is a pointer to a type  *)
(* qualified by an imported alias has an R02 Diagnostic exactly when a     *)
(* file of the imported directory declares the type as an interface,       *)
(* whether the walk loaded that file or an exclusion pattern kept it out;  *)
(* and no Diagnostic is located in a file that was kept out.               *)
(***************************************************************************)
\* The types of the struct fields and of the parameters of a file.
C29_FieldAndParamTypes(f) ==
  UNION {LET d == FileAt(f).decls[i]
         IN  IF d.k = "type" THEN {d.fields[j].type : j \in 1..Len(d.fields)}
             ELSE {d.params[j].type : j \in 1..Len(d.params)} :
         i \in 1..Len(FileAt(f).decls)}

C29_ResolverIgnoresExclusions ==
  RulesDone =>
    /\ \A f \in LoadedFiles(packages) : \A t \in C29_FieldAndParamTypes(f) :
          (t.star /\ t.x = "sel" /\ ImportsOf(FileAt(f), t.sel) # {}) =>
            (Count(LAMBDA e : /\ RuleKey(e.Rule) = "R02" /\ e.File = f
                              /\ e.Line = t.line /\ e.Column = t.col) >= 1
               <=> C17_Declared(TrimPrefix(ImportPath(FileAt(f), t.sel), module),
                                t.name))
    /\ \A k \in 1..Len(allErrors) :
          allErrors[k].File \notin tree \ LoadedFiles(packages)

\* The rules ran over a loaded file with a pointer to an interface that only
\* a file kept out by a pattern declares, and the pointer was flagged.
C29_Witness ==
  /\ RulesDone
  /\ \E f \in LoadedFiles(packages) : \E t \in C29_FieldAndParamTypes(f) :
        /\ t.star /\ t.x = "sel" /\ ImportsOf(FileAt(f), t.sel) # {}
        /\ \A g \in tree :
              (/\ DirOf(g) = TrimPrefix(ImportPath(FileAt(f), t.sel), module)
               /\ DeclaresInterface(FileAt(g), t.name))
                => (IsExcluded(excludeDirs, g) /\ g \notin LoadedFiles(packages))
        /\ C17_Declared(TrimPrefix(ImportPath(FileAt(f), t.sel), module), t.name)
        /\ Count(LAMBDA e : /\ RuleKey(e.Rule) = "R02" /\ e.File = f
                            /\ e.Line = t.line /\ e.Column = t.col) >= 1

=============================================================================
